---- MODULE Spec2Model ----
(***************************************************************************)
(* A model of go4dot / GopherDot's installation orchestration engine:      *)
(* the batch symlink operations (package stow), the external asset         *)
(* manager (package deps), the install pipeline (package setup) and the    *)
(* install / reconfigure commands that persist the installation state.     *)
(*                                                                         *)
(* External tools (stow, git, the package manager, the terminal) are the   *)
(* environment: each invocation's outcome is chosen nondeterministically.  *)
(***************************************************************************)
EXTENDS Integers, Sequences, FiniteSets, TLC

(***************************************************************************)
(* Bounds of the model.                                                    *)
(***************************************************************************)
\* number of configuration groups a batch stow operation may be handed
NumGroups == 3
\* longest list of external assets a manifest declares
MaxExternal == 2

(***************************************************************************)
(* Small helpers over sequences.                                           *)
(***************************************************************************)
Range(s) == {s[i] : i \in DOMAIN s}

\* all sequences over S of length <= n without repeated elements
RECURSIVE DistinctSeqs(_, _)
DistinctSeqs(S, n) ==
    IF n = 0 THEN {<<>>}
    ELSE LET shorter == DistinctSeqs(S, n - 1)
         IN  shorter \cup
             {Append(p[1], p[2]) :
                 p \in {q \in shorter \X S : q[2] \notin Range(q[1])}}

\* the indices of s holding an element that satisfies Test
Positions(s, Test(_)) == {i \in DOMAIN s : Test(s[i])}

(***************************************************************************)
(* The manifest's configuration groups (config.ConfigItem).  A group has   *)
(* a Name, which results report, and a Path, which is the directory under  *)
(* the dotfiles root and the package name handed to stow.                  *)
(***************************************************************************)
ConfigItem(i) == [name |-> <<"group", i>>, path |-> <<"dir", i>>]

Groups == {ConfigItem(i) : i \in 1..NumGroups}
GroupPaths == {g.path : g \in Groups}
ConfigPaths(configs) == {configs[i].path : i \in DOMAIN configs}

\* what os.Stat reports for a group's source directory
DirStatus == {"dir", "absent", "denied"}

\* exit codes of the stow tool: 0 is success
ExitCodes == {0, 1, 2}

(***************************************************************************)
(* Errors.  A Go error is nil or carries a message and, for a failed       *)
(* command, the exit code it wraps (%w).                                   *)
(***************************************************************************)
NoError == [msg |-> "nil", exit |-> 0]
Errorf(msg, code) == [msg |-> msg, exit |-> code]

VARIABLES
    dirs,       \* dotfiles repository: status of each group's source directory
    links,      \* home directory: the group paths currently symlinked by stow
    pc,         \* position of the running command
    calls,      \* external tool invocations of the current run, in order
    stowInput,  \* the configs handed to the last batch stow operation
    stowOp,     \* which batch operation ran: "stow", "unstow", "restow"
    stowRes,    \* stow.StowResult of the last batch operation
    platform,   \* the detected platform.Platform
    external,   \* cfg.External: the manifest's external assets, in order
    dest,       \* filesystem: what is at each external destination path
    parents,    \* filesystem: destination paths whose parent directory was created
    gitAvailable, \* whether exec.LookPath("git") succeeds on this machine
    homeOK,     \* whether os.UserHomeDir() succeeds on this machine
    extOpts,    \* deps.ExternalOptions of the last CloneExternal run
    extRes,     \* deps.ExternalResult of the last run (NoResult: nil)
    extErr,     \* the error the last run returned
    clonedBy,   \* destinations that exist because an earlier run cloned them
    destBefore, \* dest as it was when the last run began
    extStatus,  \* []deps.ExternalStatus returned since the last run (<<>>: none)
    manifest,   \* the loaded cfg: Configs.Core, Configs.Optional, MachineConfig, Dependencies
    cmd,        \* the command that runs or ran last: "install", "reconfigure"
    installOpts, \* setup.InstallOptions of the current Install run
    result,     \* setup.InstallResult that Install builds and returns
    ret,        \* what Install returned: a nil result or not, and the error
    started,    \* the phases Install has entered in this run, in order
    pkgs,       \* machine: the packages that are installed
    mcfile,     \* filesystem: ids of the machine configs whose destination file exists
    stfile,     \* the persisted installation state
    exitCode,   \* exit status of the last command
    rerun,      \* whether this Install run repeats a run that has just succeeded
    gitOutcome, \* how the git operations of the last External phase ended, by path
    promptIn,   \* what collectSinglePrompt was given: field, reader, SkipPrompts
    promptOut,  \* what it returned: value, error, the reader afterwards
    cmdOpts,    \* the options of the uninstall or update command that ran
    inRepo,     \* the external destinations that lie inside the dotfiles repository
    removed,    \* what the last uninstall deleted: destinations, config files, state
    stLoaded,   \* the state that state.Load gave the uninstall or update command
    lastRun     \* the last uninstall or update: what it started from, met and returned

stowVars == <<dirs, links, stowInput, stowOp, stowRes>>
extVars == <<platform, external, dest, parents, gitAvailable, homeOK,
             extOpts, extRes, extErr, clonedBy, destBefore, extStatus>>
instRest == <<manifest, cmd, installOpts, result, ret, started, pkgs, mcfile, stfile,
              exitCode, rerun, gitOutcome, cmdOpts, inRepo, removed, stLoaded>>
instVars == <<instRest, promptIn, promptOut, lastRun>>
vars == <<pc, calls, stowVars, extVars, instVars>>

(***************************************************************************)
(* package stow: one invocation of the tool.  exit maps a package to the   *)
(* exit code the tool ends with in this run.                               *)
(***************************************************************************)
StowCall(mode, pkg, code) == [tool |-> "stow", mode |-> mode, pkg |-> pkg, exit |-> code]

StowWithCount(configName, exit) ==
    IF exit[configName] # 0 THEN Errorf("stow failed", exit[configName]) ELSE NoError

UnstowWithCount(configName, exit) ==
    IF exit[configName] # 0 THEN Errorf("unstow failed", exit[configName]) ELSE NoError

RestowWithCount(configName, exit) ==
    IF exit[configName] # 0 THEN Errorf("restow failed", exit[configName]) ELSE NoError

\* os.IsNotExist(err) of os.Stat(filepath.Join(dotfilesPath, cfg.Path))
IsNotExist(status) == status = "absent"

EmptyStowResult == [Success |-> <<>>, Failed |-> <<>>, Skipped |-> <<>>]
StowError(name, err) == [ConfigName |-> name, Error |-> err]

\* the loop state of a batch operation: the result so far, the tool
\* invocations made, and the symlinks in the home directory
StowAcc(links_) == [res |-> EmptyStowResult, calls |-> <<>>, links |-> links_]

RECURSIVE StowConfigsFrom(_, _, _, _, _)
StowConfigsFrom(i, configs, dirs_, exit, acc) ==
    IF i > Len(configs) THEN acc
    ELSE LET cfg == configs[i]
         IN  IF IsNotExist(dirs_[cfg.path])
             THEN StowConfigsFrom(i + 1, configs, dirs_, exit,
                      [acc EXCEPT !.res.Skipped = Append(@, cfg.name)])
             ELSE LET err == StowWithCount(cfg.path, exit)
                      ran == [acc EXCEPT
                                 !.calls = Append(@, StowCall("stow", cfg.path, exit[cfg.path])),
                                 !.links = IF err = NoError THEN @ \cup {cfg.path} ELSE @]
                  IN  IF err # NoError
                      THEN StowConfigsFrom(i + 1, configs, dirs_, exit,
                               [ran EXCEPT !.res.Failed = Append(@, StowError(cfg.name, err))])
                      ELSE StowConfigsFrom(i + 1, configs, dirs_, exit,
                               [ran EXCEPT !.res.Success = Append(@, cfg.name)])

\* a variant that never looks at the source directory
StowConfigsNoDirCheck(configs, dirs_, links_, exit) ==
    StowConfigsFrom(1, configs, [p \in DOMAIN dirs_ |-> "dir"], exit, StowAcc(links_))

StowConfigs(configs, dirs_, links_, exit) ==
    StowConfigsFrom(1, configs, dirs_, exit, StowAcc(links_))

RECURSIVE UnstowConfigsFrom(_, _, _, _, _)
UnstowConfigsFrom(i, configs, dirs_, exit, acc) ==
    IF i > Len(configs) THEN acc
    ELSE LET cfg == configs[i]
             err == UnstowWithCount(cfg.path, exit)
             ran == [acc EXCEPT
                        !.calls = Append(@, StowCall("unstow", cfg.path, exit[cfg.path])),
                        !.links = IF err = NoError THEN @ \ {cfg.path} ELSE @]
         IN  IF err # NoError
             THEN UnstowConfigsFrom(i + 1, configs, dirs_, exit,
                      [ran EXCEPT !.res.Failed = Append(@, StowError(cfg.name, err))])
             ELSE UnstowConfigsFrom(i + 1, configs, dirs_, exit,
                      [ran EXCEPT !.res.Success = Append(@, cfg.name)])

\* a variant that returns at the first group the tool fails on
UnstowConfigsStopAtFailure(configs, dirs_, links_, exit) ==
    LET failing == {i \in DOMAIN configs : exit[configs[i].path] # 0}
        last == IF failing = {} THEN Len(configs)
                ELSE CHOOSE i \in failing : \A j \in failing : i <= j
    IN  UnstowConfigsFrom(1, SubSeq(configs, 1, last), dirs_, exit, StowAcc(links_))

UnstowConfigs(configs, dirs_, links_, exit) ==
    UnstowConfigsFrom(1, configs, dirs_, exit, StowAcc(links_))

RECURSIVE RestowConfigsFrom(_, _, _, _, _)
RestowConfigsFrom(i, configs, dirs_, exit, acc) ==
    IF i > Len(configs) THEN acc
    ELSE LET cfg == configs[i]
         IN  IF IsNotExist(dirs_[cfg.path])
             THEN RestowConfigsFrom(i + 1, configs, dirs_, exit,
                      [acc EXCEPT !.res.Skipped = Append(@, cfg.name)])
             ELSE LET err == RestowWithCount(cfg.path, exit)
                      ran == [acc EXCEPT
                                 !.calls = Append(@, StowCall("restow", cfg.path, exit[cfg.path])),
                                 !.links = IF err = NoError THEN @ \cup {cfg.path} ELSE @]
                  IN  IF err # NoError
                      THEN RestowConfigsFrom(i + 1, configs, dirs_, exit,
                               [ran EXCEPT !.res.Failed = Append(@, StowError(cfg.name, err))])
                      ELSE RestowConfigsFrom(i + 1, configs, dirs_, exit,
                               [ran EXCEPT !.res.Success = Append(@, cfg.name)])

\* a variant that records a missing group as skipped and runs the tool
\* for it all the same
RestowConfigsSkipThenRun(configs, dirs_, links_, exit) ==
    LET ran == RestowConfigsFrom(1, configs, [p \in DOMAIN dirs_ |-> "dir"], exit,
                                 StowAcc(links_))
        missing == SelectSeq(configs, LAMBDA c : IsNotExist(dirs_[c.path]))
    IN  [ran EXCEPT !.res.Skipped = [k \in DOMAIN missing |-> missing[k].name]]

RestowConfigs(configs, dirs_, links_, exit) ==
    RestowConfigsFrom(1, configs, dirs_, exit, StowAcc(links_))

(***************************************************************************)
(* Strings that the code splits or trims are sequences of tokens: a word,  *)
(* a "," or a " ".  Str(w) is the one-word string, <<>> the empty string.  *)
(***************************************************************************)
Str(w) == <<w>>

\* strings.Split(s, ","): the segments between the commas
RECURSIVE SplitComma(_)
SplitComma(s) ==
    IF \A i \in DOMAIN s : s[i] # "," THEN <<s>>
    ELSE LET k == CHOOSE i \in DOMAIN s : s[i] = "," /\ \A j \in 1..(i - 1) : s[j] # ","
         IN  <<SubSeq(s, 1, k - 1)>> \o SplitComma(SubSeq(s, k + 1, Len(s)))

\* strings.TrimSpace(s): leading and trailing blanks removed
RECURSIVE TrimSpace(_)
TrimSpace(s) ==
    IF s # <<>> /\ s[1] = " " THEN TrimSpace(Tail(s))
    ELSE IF s # <<>> /\ s[Len(s)] = " " THEN TrimSpace(SubSeq(s, 1, Len(s) - 1))
    ELSE s

(***************************************************************************)
(* package platform: the detected platform.                                *)
(***************************************************************************)
Platforms == {
    [OS |-> Str("linux"), Distro |-> Str("ubuntu"), PackageManager |-> Str("apt"),
     Architecture |-> Str("amd64"), IsWSL |-> TRUE],
    [OS |-> Str("darwin"), Distro |-> <<>>, PackageManager |-> Str("brew"),
     Architecture |-> Str("arm64"), IsWSL |-> FALSE],
    [OS |-> Str("windows"), Distro |-> <<>>, PackageManager |-> Str("none"),
     Architecture |-> Str("amd64"), IsWSL |-> FALSE] }

(***************************************************************************)
(* package deps (external assets).  The manifest declares a list of        *)
(* config.ExternalDep drawn from this pool: a default-method clone into    *)
(* the home directory, a conditional copy, and an asset whose method is    *)
(* not one the tool knows.                                                 *)
(***************************************************************************)
NoCondition == [k \in {} |-> <<>>]

ExternalPool == {
    [id |-> 1, destination |-> [tilde |-> TRUE, path |-> <<"dest", 1>>],
     method |-> "", condition |-> NoCondition],
    [id |-> 2, destination |-> [tilde |-> FALSE, path |-> <<"dest", 2>>],
     method |-> "copy",
     condition |-> [k \in {"os"} |-> <<"linux", ",", "darwin">>]],
    [id |-> 3, destination |-> [tilde |-> FALSE, path |-> <<"dest", 3>>],
     method |-> "svn",
     condition |-> [k \in {"os"} |-> <<" ", "linux", " ", ",", " ", "darwin">>]] }

ExtPaths == {e.destination.path : e \in ExternalPool}
DestPaths(exts) == {exts[i].destination.path : i \in DOMAIN exts}

\* what is at a destination path: nothing, a regular file, a directory
\* without .git, a git working copy, or something os.Stat cannot read
DestStatus == {"absent", "file", "dir", "git", "denied"}

\* one git operation on a destination: it succeeded, git failed, the
\* parent directory could not be created, or (copy only) the fallback
\* copy failed after it had created the destination
GitOutcomes == {"ok", "fail", "nomkdir", "partial"}

GitCall(mode, path, code) == [tool |-> "git", mode |-> mode, pkg |-> path, exit |-> code]

ExternalOptions == [DryRun : BOOLEAN, Update : BOOLEAN]

NoResult == [Cloned |-> <<"nil">>, Updated |-> <<"nil">>, Failed |-> <<"nil">>, Skipped |-> <<"nil">>]
EmptyExternalResult == [Cloned |-> <<>>, Updated |-> <<>>, Failed |-> <<>>, Skipped |-> <<>>]
ExternalError(ext, err) == [Dep |-> ext, Error |-> err]
ExternalSkipped(ext, reason) == [Dep |-> ext, Reason |-> reason]

\* a variant that compares the whole value, alternatives not split
matchesValueWhole(actual, expected) == TrimSpace(expected) = actual

matchesValue(actual, expected) ==
    \E i \in DOMAIN SplitComma(expected) : TrimSpace(SplitComma(expected)[i]) = actual

\* one key of the condition map holds of the platform
conditionKeyHolds(key, value, p) ==
    CASE key \in {"platform", "os"} -> matchesValue(p.OS, value)
      [] key = "distro" -> matchesValue(p.Distro, value)
      [] key = "package_manager" -> matchesValue(p.PackageManager, value)
      [] key = "wsl" -> /\ ~(value = Str("true") /\ ~p.IsWSL)
                        /\ ~(value = Str("false") /\ p.IsWSL)
      [] key \in {"arch", "architecture"} -> matchesValue(p.Architecture, value)
      [] OTHER -> TRUE

checkCondition(condition, p) ==
    \A key \in DOMAIN condition : conditionKeyHolds(key, condition[key], p)

\* a variant of the loop that looks at the first key of the iteration only
checkConditionFirstKey(condition, order, p) ==
    IF order = <<>> THEN TRUE
    ELSE conditionKeyHolds(Head(order), condition[Head(order)], p)

\* checkCondition as the loop runs it: `order` is the order in which the
\* range statement happens to yield the keys of the map, and the loop
\* returns at the first key that does not match
RECURSIVE checkConditionOver(_, _, _)
checkConditionOver(condition, order, p) ==
    IF order = <<>> THEN TRUE
    ELSE LET key == Head(order)
             value == condition[key]
         IN  IF key \in {"platform", "os"} /\ ~matchesValue(p.OS, value) THEN FALSE
             ELSE IF key = "distro" /\ ~matchesValue(p.Distro, value) THEN FALSE
             ELSE IF key = "package_manager" /\ ~matchesValue(p.PackageManager, value)
                  THEN FALSE
             ELSE IF key = "wsl" /\ value = Str("true") /\ ~p.IsWSL THEN FALSE
             ELSE IF key = "wsl" /\ value = Str("false") /\ p.IsWSL THEN FALSE
             ELSE IF key \in {"arch", "architecture"} /\ ~matchesValue(p.Architecture, value)
                  THEN FALSE
             ELSE checkConditionOver(condition, Tail(order), p)

\* expandPath: a "~/" destination needs the home directory
expandPath(destination, home) ==
    IF destination.tilde /\ ~home
    THEN [path |-> destination.path, err |-> Errorf("failed to get home directory", 0)]
    ELSE [path |-> destination.path, err |-> NoError]

\* a variant that takes only a git working copy to exist
checkDestinationGitOnly(status) ==
    IF status = "git" THEN <<TRUE, TRUE>> ELSE <<FALSE, FALSE>>

\* checkDestination: <<exists, isGit>>
checkDestination(status) ==
    CASE status = "absent" -> <<FALSE, FALSE>>
      [] status = "denied" -> <<FALSE, FALSE>>
      [] status = "file" -> <<TRUE, FALSE>>
      [] status = "git" -> <<TRUE, TRUE>>
      [] OTHER -> <<TRUE, FALSE>>

\* gitPull: git -C path pull --ff-only
gitPull(path, outcome) ==
    [err |-> IF outcome = "ok" THEN NoError ELSE Errorf("git pull failed", 1),
     calls |-> <<GitCall("pull --ff-only", path, IF outcome = "ok" THEN 0 ELSE 1)>>]

\* gitClone: create the parent directory, then git clone --depth 1
gitClone(path, outcome) ==
    IF outcome = "nomkdir"
    THEN [err |-> Errorf("failed to create parent directory", 0), calls |-> <<>>,
          made |-> "absent", parent |-> FALSE]
    ELSE IF outcome = "ok"
    THEN [err |-> NoError, calls |-> <<GitCall("clone --depth 1", path, 0)>>,
          made |-> "git", parent |-> TRUE]
    ELSE [err |-> Errorf("git clone failed", 1), calls |-> <<GitCall("clone --depth 1", path, 1)>>,
          made |-> "absent", parent |-> TRUE]

\* gitCloneThenCopy: clone into a temporary directory, strip .git, then
\* rename (or copy) the tree to the destination
gitCloneThenCopy(path, outcome) ==
    CASE outcome = "ok" ->
            [err |-> NoError, calls |-> <<GitCall("clone --depth 1", <<"tmp", path>>, 0)>>,
             made |-> "dir", parent |-> TRUE]
      [] outcome = "fail" ->
            [err |-> Errorf("git clone failed", 1),
             calls |-> <<GitCall("clone --depth 1", <<"tmp", path>>, 1)>>,
             made |-> "absent", parent |-> FALSE]
      [] outcome = "nomkdir" ->
            [err |-> Errorf("failed to create parent directory", 0),
             calls |-> <<GitCall("clone --depth 1", <<"tmp", path>>, 0)>>,
             made |-> "absent", parent |-> FALSE]
      [] OTHER ->
            [err |-> Errorf("copy failed", 0),
             calls |-> <<GitCall("clone --depth 1", <<"tmp", path>>, 0)>>,
             made |-> "dir", parent |-> TRUE]

\* a variant that clones whatever the method says
cloneByMethodAlwaysClone(ext, path, outcome) == gitClone(path, outcome)

\* the switch on ext.Method, "" meaning clone
cloneByMethod(ext, path, outcome) ==
    LET method == IF ext.method = "" THEN "clone" ELSE ext.method
    IN  CASE method = "clone" -> gitClone(path, outcome)
          [] method = "copy" -> gitCloneThenCopy(path, outcome)
          [] OTHER -> [err |-> Errorf("unknown method", 0), calls |-> <<>>,
                       made |-> "absent", parent |-> FALSE]

\* deps.ExternalStatus
ExternalStatus(ext, status, reason, path) ==
    [Dep |-> ext, Status |-> status, Reason |-> reason, Path |-> path]

\* CheckExternalStatus: one status per declared asset, in order
CheckExternalStatus(exts, p, home, dest_) ==
    [i \in DOMAIN exts |->
        LET ext == exts[i]
            expanded == expandPath(ext.destination, home)
            found == checkDestination(dest_[expanded.path])
        IN  IF ~checkCondition(ext.condition, p)
            THEN ExternalStatus(ext, "skipped", "condition not met", <<>>)
            ELSE IF expanded.err # NoError
            THEN ExternalStatus(ext, "error", "invalid path", <<>>)
            ELSE IF found[1]
            THEN ExternalStatus(ext, "installed",
                                IF found[2] THEN "" ELSE "not a git repo", expanded.path)
            ELSE ExternalStatus(ext, "missing", "", expanded.path)]

\* the loop state of CloneExternal
ExtAcc(dest_, parents_, cloned_) ==
    [res |-> EmptyExternalResult, calls |-> <<>>, dest |-> dest_,
     parents |-> parents_, cloned |-> cloned_]

\* one iteration of CloneExternal's loop, for the asset ext
CloneExternalStep(ext, p, opts, home, outcome, acc) ==
    IF ~checkCondition(ext.condition, p)
    THEN [acc EXCEPT !.res.Skipped = Append(@, ExternalSkipped(ext, "condition not met"))]
    ELSE
    LET expanded == expandPath(ext.destination, home)
        destPath == expanded.path
        exists == checkDestination(acc.dest[destPath])[1]
        isGit == checkDestination(acc.dest[destPath])[2]
    IN  IF expanded.err # NoError
        THEN [acc EXCEPT !.res.Failed =
                 Append(@, ExternalError(ext, Errorf("failed to expand path", 0)))]
        ELSE IF exists
        THEN IF opts.Update /\ isGit
             THEN IF ~opts.DryRun
                  THEN LET pull == gitPull(destPath, outcome[destPath])
                       IN  IF pull.err # NoError
                           THEN [acc EXCEPT
                                    !.calls = @ \o pull.calls,
                                    !.res.Failed = Append(@, ExternalError(ext,
                                                       Errorf("failed to update", pull.err.exit)))]
                           ELSE [acc EXCEPT
                                    !.calls = @ \o pull.calls,
                                    !.res.Updated = Append(@, ext)]
                  ELSE [acc EXCEPT !.res.Updated = Append(@, ext)]
             ELSE [acc EXCEPT !.res.Skipped = Append(@, ExternalSkipped(ext, "already exists"))]
        ELSE IF opts.DryRun
        THEN [acc EXCEPT !.res.Cloned = Append(@, ext)]
        ELSE LET clone == cloneByMethod(ext, destPath, outcome[destPath])
                 ran == [acc EXCEPT
                            !.calls = @ \o clone.calls,
                            !.dest[destPath] = IF clone.made = "absent" THEN @ ELSE clone.made,
                            !.parents = IF clone.parent THEN @ \cup {destPath} ELSE @,
                            !.cloned = IF clone.err = NoError THEN @ \cup {destPath} ELSE @]
             IN  IF clone.err # NoError
                 THEN [ran EXCEPT !.res.Failed = Append(@, ExternalError(ext, clone.err))]
                 ELSE [ran EXCEPT !.res.Cloned = Append(@, ext)]

\* a variant of the loop that returns at the first asset that failed
RECURSIVE CloneExternalFromStopAtFailure(_, _, _, _, _, _, _)
CloneExternalFromStopAtFailure(i, exts, p, opts, home, outcome, acc) ==
    IF i > Len(exts) THEN acc
    ELSE LET next == CloneExternalStep(exts[i], p, opts, home, outcome, acc)
         IN  IF Len(next.res.Failed) > Len(acc.res.Failed) THEN next
             ELSE CloneExternalFromStopAtFailure(i + 1, exts, p, opts, home, outcome, next)

RECURSIVE CloneExternalFrom(_, _, _, _, _, _, _)
CloneExternalFrom(i, exts, p, opts, home, outcome, acc) ==
    IF i > Len(exts) THEN acc
    ELSE CloneExternalFrom(i + 1, exts, p, opts, home, outcome,
             CloneExternalStep(exts[i], p, opts, home, outcome, acc))

\* CloneExternal: the result (NoResult for nil), the error returned, and
\* the filesystem it leaves
CloneExternal(exts, p, opts, git, home, outcome, dest_, parents_, cloned_) ==
    IF Len(exts) = 0
    THEN [ExtAcc(dest_, parents_, cloned_) EXCEPT !.res = EmptyExternalResult]
             @@ [err |-> NoError]
    ELSE IF ~git
    THEN [ExtAcc(dest_, parents_, cloned_) EXCEPT !.res = NoResult]
             @@ [err |-> Errorf("git is required but not found in PATH", 0)]
    ELSE CloneExternalFrom(1, exts, p, opts, home, outcome, ExtAcc(dest_, parents_, cloned_))
             @@ [err |-> NoError]

\* CloneSingle: the error returned, the git calls and the filesystem left
CloneSingle(exts, p, id, opts, home, outcome, dest_, parents_, cloned_) ==
    LET found == {k \in DOMAIN exts : exts[k].id = id}
        back(err, cs) == [err |-> err, calls |-> cs, dest |-> dest_, parents |-> parents_,
                          cloned |-> cloned_]
    IN  IF found = {} THEN back(Errorf("external dependency not found", 0), <<>>)
        ELSE
        LET ext == exts[CHOOSE k \in found : \A j \in found : k <= j]
            expanded == expandPath(ext.destination, home)
            destPath == expanded.path
            exists == checkDestination(dest_[destPath])[1]
            isGit == checkDestination(dest_[destPath])[2]
        IN  IF ~checkCondition(ext.condition, p)
            THEN back(Errorf("condition not met", 0), <<>>)
            ELSE IF expanded.err # NoError
            THEN back(Errorf("failed to expand path", 0), <<>>)
            ELSE IF exists
            THEN IF opts.Update /\ isGit
                 THEN IF ~opts.DryRun
                      THEN LET pull == gitPull(destPath, outcome[destPath])
                           IN  back(IF pull.err # NoError
                                    THEN Errorf("failed to update", pull.err.exit)
                                    ELSE NoError, pull.calls)
                      ELSE back(NoError, <<>>)
                 ELSE back(Errorf("destination already exists", 0), <<>>)
            ELSE IF opts.DryRun THEN back(NoError, <<>>)
            ELSE LET clone == cloneByMethod(ext, destPath, outcome[destPath])
                 IN  [err |-> clone.err, calls |-> clone.calls,
                      dest |-> [dest_ EXCEPT ![destPath] =
                                   IF clone.made = "absent" THEN @ ELSE clone.made],
                      parents |-> IF clone.parent THEN parents_ \cup {destPath}
                                  ELSE parents_,
                      cloned |-> IF clone.err = NoError THEN cloned_ \cup {destPath}
                                 ELSE cloned_]

(***************************************************************************)
(* package machine: prompt collection.  The terminal is a reader holding   *)
(* the lines still to come; an empty reader is at end of input.  A line    *)
(* is a string (a token sequence) without its newline.                     *)
(***************************************************************************)
PromptField(id, type, default, required) ==
    [ID |-> id, Type |-> type, Default |-> default, Required |-> required]

\* cfg.MachineConfig of the manifest: one config whose only field has a
\* default, one with an optional confirm field and a required field
\* without default
MachinePrompts == <<
    [ID |-> "git", Destination |-> <<"mcdest", 1>>,
     Prompts |-> <<PromptField("user_name", "text", <<"Test", " ", "User">>, TRUE)>>],
    [ID |-> "signing", Destination |-> <<"mcdest", 2>>,
     Prompts |-> <<PromptField("enable", "confirm", <<>>, FALSE),
                   PromptField("key", "text", <<>>, TRUE)>>] >>

\* a line on which reader.ReadString fails with an error other than io.EOF
ReadError == <<"<read error>">>

\* strings.ToLower, word by word
LowerWord(w) ==
    CASE w = "Y" -> "y"
      [] w = "Yes" -> "yes"
      [] w = "NO" -> "no"
      [] w = "TRUE" -> "true"
      [] w = "Maybe" -> "maybe"
      [] OTHER -> w
ToLower(s) == [i \in DOMAIN s |-> LowerWord(s[i])]

\* a variant that does not take "1" for a yes
ConfirmYesWithoutOne == {Str("y"), Str("yes"), Str("true")}

ConfirmYes == {Str("y"), Str("yes"), Str("true"), Str("1")}
ConfirmNo == {Str("n"), Str("no"), Str("false"), Str("0"), <<>>}

PromptCall(id, code) == [tool |-> "prompt", mode |-> "read", pkg |-> id, exit |-> code]

\* fmt.Errorf("required field '%s' has no default value", prompt.ID)
RequiredNoDefault(id) ==
    Errorf(CASE id = "user_name" -> "required field 'user_name' has no default value"
             [] id = "enable" -> "required field 'enable' has no default value"
             [] OTHER -> "required field 'key' has no default value", 0)

\* a variant that gives the default back whatever the field and the mode
collectSinglePromptDefaultOnly(prompt, reader, skipPrompts) ==
    [value |-> prompt.Default, err |-> NoError, rest |-> reader, asked |-> 0]

\* collectSinglePrompt: the value, the error, the reader afterwards and
\* the number of times the prompt was printed
RECURSIVE collectSinglePrompt(_, _, _)
collectSinglePrompt(prompt, reader, skipPrompts) ==
    IF skipPrompts
    THEN IF prompt.Required /\ prompt.Default = <<>>
         THEN [value |-> <<>>, err |-> RequiredNoDefault(prompt.ID),
               rest |-> reader, asked |-> 0]
         ELSE [value |-> prompt.Default, err |-> NoError, rest |-> reader, asked |-> 0]
    ELSE IF reader = <<>>
    THEN IF prompt.Default # <<>>
         THEN [value |-> prompt.Default, err |-> NoError, rest |-> reader, asked |-> 1]
         ELSE IF prompt.Required
         THEN [value |-> <<>>, err |-> Errorf("required field not provided", 0),
               rest |-> reader, asked |-> 1]
         ELSE [value |-> <<>>, err |-> NoError, rest |-> reader, asked |-> 1]
    ELSE IF Head(reader) = ReadError
    THEN [value |-> <<>>, err |-> Errorf("failed to read input", 0),
          rest |-> Tail(reader), asked |-> 1]
    ELSE LET line == Head(reader)
             answer == TrimSpace(ToLower(line))
             isConfirm == prompt.Type = "confirm"
             typed == IF isConfirm
                      THEN IF answer \in ConfirmYes THEN Str("true") ELSE Str("false")
                      ELSE TrimSpace(line)
             input == IF typed = <<>> /\ prompt.Default # <<>> THEN prompt.Default ELSE typed
             again == collectSinglePrompt(prompt, Tail(reader), skipPrompts)
         IN  IF isConfirm /\ answer \notin (ConfirmYes \cup ConfirmNo)
             THEN [again EXCEPT !.asked = @ + 1]
             ELSE IF prompt.Required /\ input = <<>>
             THEN [again EXCEPT !.asked = @ + 1]
             ELSE [value |-> input, err |-> NoError, rest |-> Tail(reader), asked |-> 1]

\* a variant of the loop body that asks again without reading a new line
promptIterationSameLine(prompt, reader) ==
    IF reader = <<>>
    THEN [again |-> FALSE, rest |-> reader,
          value |-> prompt.Default,
          err |-> IF prompt.Default = <<>> /\ prompt.Required
                  THEN Errorf("required field not provided", 0) ELSE NoError]
    ELSE IF Head(reader) = ReadError
    THEN [again |-> FALSE, rest |-> Tail(reader), value |-> <<>>,
          err |-> Errorf("failed to read input", 0)]
    ELSE LET line == Head(reader)
             answer == TrimSpace(ToLower(line))
             isConfirm == prompt.Type = "confirm"
             typed == IF isConfirm
                      THEN IF answer \in ConfirmYes THEN Str("true") ELSE Str("false")
                      ELSE TrimSpace(line)
             input == IF typed = <<>> /\ prompt.Default # <<>> THEN prompt.Default ELSE typed
         IN  IF (isConfirm /\ answer \notin (ConfirmYes \cup ConfirmNo))
                \/ (prompt.Required /\ input = <<>>)
             THEN [again |-> TRUE, rest |-> reader, value |-> <<>>, err |-> NoError]
             ELSE [again |-> FALSE, rest |-> Tail(reader), value |-> input, err |-> NoError]

\* one pass through the for loop of collectSinglePrompt: the prompt is
\* printed and a line is read; again tells that the loop continues
promptIteration(prompt, reader) ==
    IF reader = <<>>
    THEN [again |-> FALSE, rest |-> reader,
          value |-> prompt.Default,
          err |-> IF prompt.Default = <<>> /\ prompt.Required
                  THEN Errorf("required field not provided", 0) ELSE NoError]
    ELSE IF Head(reader) = ReadError
    THEN [again |-> FALSE, rest |-> Tail(reader), value |-> <<>>,
          err |-> Errorf("failed to read input", 0)]
    ELSE LET line == Head(reader)
             answer == TrimSpace(ToLower(line))
             isConfirm == prompt.Type = "confirm"
             typed == IF isConfirm
                      THEN IF answer \in ConfirmYes THEN Str("true") ELSE Str("false")
                      ELSE TrimSpace(line)
             input == IF typed = <<>> /\ prompt.Default # <<>> THEN prompt.Default ELSE typed
         IN  IF (isConfirm /\ answer \notin (ConfirmYes \cup ConfirmNo))
                \/ (prompt.Required /\ input = <<>>)
             THEN [again |-> TRUE, rest |-> Tail(reader), value |-> <<>>, err |-> NoError]
             ELSE [again |-> FALSE, rest |-> Tail(reader), value |-> input, err |-> NoError]

\* collectPrompts: the fields of one machine config, in order, stopping
\* at the first error
RECURSIVE collectPromptsFrom(_, _, _, _, _)
collectPromptsFrom(i, mc, reader, skipPrompts, acc) ==
    IF i > Len(mc.Prompts) THEN acc
    ELSE LET one == collectSinglePrompt(mc.Prompts[i], reader, skipPrompts)
             asked == [acc EXCEPT !.calls = @ \o
                          [k \in 1..one.asked |-> PromptCall(mc.Prompts[i].ID,
                               IF k = one.asked /\ one.err # NoError THEN 1 ELSE 0)]]
         IN  IF one.err # NoError
             THEN [asked EXCEPT !.err = one.err]
             ELSE collectPromptsFrom(i + 1, mc, one.rest, skipPrompts,
                      [asked EXCEPT !.Values = @ @@ (mc.Prompts[i].ID :> one.value)])

collectPrompts(mc, reader, skipPrompts) ==
    collectPromptsFrom(1, mc, reader, skipPrompts,
        [ID |-> mc.ID, Values |-> <<>>, err |-> NoError, calls |-> <<>>])

\* GetMachineConfigByID: the matching configs (none stands for nil)
GetMachineConfigByID(mcs, id) == {mcs[i] : i \in {j \in DOMAIN mcs : mcs[j].ID = id}}

\* CollectSingleConfig: the config of that id, if the manifest has one
CollectSingleConfig(mcs, id, reader, skipPrompts) ==
    IF GetMachineConfigByID(mcs, id) = {}
    THEN [ID |-> id, Values |-> <<>>, err |-> Errorf("machine config not found", 0),
          calls |-> <<>>]
    ELSE collectPrompts(CHOOSE mc \in GetMachineConfigByID(mcs, id) : TRUE,
                        reader, skipPrompts)

\* CollectMachineConfig: every config in manifest order, each through a
\* reader of its own; the first error ends the collection with no results
RECURSIVE CollectMachineConfigFrom(_, _, _, _, _)
CollectMachineConfigFrom(i, mcs, readers, skipPrompts, acc) ==
    IF i > Len(mcs) THEN acc
    ELSE LET one == collectPrompts(mcs[i], readers[mcs[i].ID], skipPrompts)
         IN  IF one.err # NoError
             THEN [results |-> <<>>, err |-> Errorf("failed to collect prompts", 0),
                   calls |-> acc.calls \o one.calls]
             ELSE CollectMachineConfigFrom(i + 1, mcs, readers, skipPrompts,
                      [acc EXCEPT !.results = Append(@, one),
                                  !.calls = @ \o one.calls])

CollectMachineConfig(mcs, readers, skipPrompts) ==
    CollectMachineConfigFrom(1, mcs, readers, skipPrompts,
        [results |-> <<>>, err |-> NoError, calls |-> <<>>])

(***************************************************************************)
(* package machine: rendering.  The bodies of RenderAndWrite, RenderAll    *)
(* and CheckMachineConfigStatus follow the Machine Config Engine's         *)
(* contract: a write refuses an existing destination unless overwrite is   *)
(* set, and may fail.  writeOK tells whether writing the file of an id     *)
(* succeeds in this run.                                                   *)
(***************************************************************************)
RenderCall(id, code) == [tool |-> "render", mode |-> "write", pkg |-> id, exit |-> code]

RenderResult(mc) == [ID |-> mc.ID, Destination |-> mc.Destination]

RenderAndWrite(mc, values, overwrite, mcfile_, writeOK) ==
    IF mc.ID \in mcfile_ /\ ~overwrite
    THEN [err |-> Errorf("already exists", 0), res |-> RenderResult(mc),
          calls |-> <<>>, mcfile |-> mcfile_]
    ELSE IF ~writeOK[mc.ID]
    THEN [err |-> Errorf("failed to write", 1), res |-> RenderResult(mc),
          calls |-> <<RenderCall(mc.ID, 1)>>, mcfile |-> mcfile_]
    ELSE [err |-> NoError, res |-> RenderResult(mc),
          calls |-> <<RenderCall(mc.ID, 0)>>, mcfile |-> mcfile_ \cup {mc.ID}]

\* RenderAll: the collected results in order; the first failure ends it
\* with no results
RECURSIVE RenderAllFrom(_, _, _, _, _, _)
RenderAllFrom(i, mcs, results, overwrite, writeOK, acc) ==
    IF i > Len(results) THEN acc
    ELSE LET mc == CHOOSE m \in GetMachineConfigByID(mcs, results[i].ID) : TRUE
             one == RenderAndWrite(mc, results[i].Values, overwrite, acc.mcfile, writeOK)
         IN  IF one.err # NoError
             THEN [acc EXCEPT !.err = one.err, !.results = <<>>, !.calls = @ \o one.calls]
             ELSE RenderAllFrom(i + 1, mcs, results, overwrite, writeOK,
                      [acc EXCEPT !.results = Append(@, one.res),
                                  !.calls = @ \o one.calls,
                                  !.mcfile = one.mcfile])

RenderAll(mcs, results, overwrite, mcfile_, writeOK) ==
    RenderAllFrom(1, mcs, results, overwrite, writeOK,
        [results |-> <<>>, err |-> NoError, calls |-> <<>>, mcfile |-> mcfile_])

\* CheckMachineConfigStatus: per config, whether its destination exists
CheckMachineConfigStatus(mcs, mcfile_) ==
    [i \in DOMAIN mcs |->
        [ID |-> mcs[i].ID,
         Status |-> IF mcs[i].ID \in mcfile_ THEN "configured" ELSE "missing"]]

(***************************************************************************)
(* package deps (dependencies).  Check queries the package manager for     *)
(* each declared dependency; Install installs the missing ones one by one  *)
(* and records each success or failure.  Their bodies follow the           *)
(* Dependency Manager's contract.                                          *)
(***************************************************************************)
Dependencies == <<[Name |-> <<"pkg", 1>>]>>
DepNames(items) == {items[i].Name : i \in DOMAIN items}

\* one run of the package tooling: the query of the packages fails, no package manager
\* serves the platform, or the tooling runs
DepOutcomes == {"checkfail", "nomanager", "run"}

PkgCall(mode, name, code) == [tool |-> "pkg", mode |-> mode, pkg |-> name, exit |-> code]

DepsCheck(items, pkgs_, outcome) ==
    IF outcome = "checkfail"
    THEN [err |-> Errorf("dependency check failed", 1), missing |-> <<>>,
          calls |-> <<PkgCall("check", <<"all">>, 1)>>]
    ELSE [err |-> NoError,
          missing |-> SelectSeq(items, LAMBDA d : d.Name \notin pkgs_),
          calls |-> [i \in DOMAIN items |-> PkgCall("check", items[i].Name, 0)]]

RECURSIVE DepsInstallFrom(_, _, _, _)
DepsInstallFrom(i, missing, exit, acc) ==
    IF i > Len(missing) THEN acc
    ELSE LET d == missing[i]
             ran == [acc EXCEPT !.calls = Append(@, PkgCall("install", d.Name, exit[d.Name]))]
         IN  DepsInstallFrom(i + 1, missing, exit,
                 IF exit[d.Name] = 0
                 THEN [ran EXCEPT !.Installed = Append(@, d), !.pkgs = @ \cup {d.Name}]
                 ELSE [ran EXCEPT !.Failed = Append(@,
                          [Item |-> d, Error |-> Errorf("install failed", exit[d.Name])])])

\* deps.Install with OnlyMissing
DepsInstall(items, pkgs_, outcome, exit) ==
    LET start == [Installed |-> <<>>, Failed |-> <<>>, calls |-> <<>>,
                  pkgs |-> pkgs_, err |-> NoError]
    IN  IF outcome = "nomanager"
        THEN [start EXCEPT !.err = Errorf("unsupported package manager", 0)]
        ELSE DepsInstallFrom(1, SelectSeq(items, LAMBDA d : d.Name \notin pkgs_),
                             exit, start)

(***************************************************************************)
(* package state: the persisted installation state.  Load gives nil when   *)
(* no state file exists; Save writes the file.  SaveState records what     *)
(* the install result reports as done.                                     *)
(***************************************************************************)
NoState == [exists |-> FALSE, Configs |-> {}, External |-> {}, MachineConfig |-> {}]

StateCall(mode, id, code) == [tool |-> "state", mode |-> mode, pkg |-> id, exit |-> code]

SetMachineConfig(st, id) == [st EXCEPT !.MachineConfig = @ \cup {id}]

SaveState(r) ==
    [exists |-> TRUE,
     Configs |-> Range(r.ConfigsStowed),
     External |-> {e.id : e \in Range(r.ExternalCloned)},
     MachineConfig |-> {m.ID : m \in Range(r.MachineConfigs)}]

(***************************************************************************)
(* package setup: the install pipeline.                                    *)
(***************************************************************************)
InstallOptions ==
    [Auto : BOOLEAN, Minimal : BOOLEAN, SkipDeps : BOOLEAN, SkipExternal : BOOLEAN,
     SkipMachine : BOOLEAN, SkipStow : BOOLEAN, Overwrite : BOOLEAN]

NoOptions ==
    [Auto |-> FALSE, Minimal |-> FALSE, SkipDeps |-> FALSE, SkipExternal |-> FALSE,
     SkipMachine |-> FALSE, SkipStow |-> FALSE, Overwrite |-> FALSE]

\* result.Platform before detection
NoPlatform ==
    [OS |-> <<>>, Distro |-> <<>>, PackageManager |-> <<>>, Architecture |-> <<>>,
     IsWSL |-> FALSE]

EmptyInstallResult ==
    [Platform |-> NoPlatform, DepsInstalled |-> <<>>, DepsFailed |-> <<>>,
     ConfigsStowed |-> <<>>, ConfigsFailed |-> <<>>, ExternalCloned |-> <<>>,
     ExternalFailed |-> <<>>, MachineConfigs |-> <<>>, Errors |-> <<>>]

\* what Install has returned: nothing yet, or a result (nil or not) and an error
NotReturned == [returned |-> FALSE, nil |-> TRUE, err |-> NoError]
Returned(isNil, err) == [returned |-> TRUE, nil |-> isNil, err |-> err]

\* a variant that overlooks the generic errors
HasErrorsWithoutGeneric(r) ==
    Len(r.DepsFailed) > 0 \/ Len(r.ConfigsFailed) > 0 \/ Len(r.ExternalFailed) > 0

HasErrors(r) ==
    Len(r.DepsFailed) > 0 \/ Len(r.ConfigsFailed) > 0 \/
    Len(r.ExternalFailed) > 0 \/ Len(r.Errors) > 0

\* the phases after detection, in the order Install runs them
PhaseOrder == <<"deps", "stow", "external", "machine">>

\* a variant that reads the wrong option for two of the phases
SkippedCrossed(o, phase) ==
    CASE phase = "deps" -> o.SkipDeps
      [] phase = "stow" -> o.SkipStow
      [] phase = "external" -> o.SkipMachine
      [] OTHER -> o.SkipExternal

\* the option that guards each phase
Skipped(o, phase) ==
    CASE phase = "deps" -> o.SkipDeps
      [] phase = "stow" -> o.SkipStow
      [] phase = "external" -> o.SkipExternal
      [] OTHER -> o.SkipMachine

\* a variant that carries on although detection failed
AfterDetectIgnoringError(err) == "deps"

\* where Install goes after platform.Detect returned err
AfterDetect(err) == IF err # NoError THEN "returned" ELSE "deps"

\* a variant that returns from Install at the first phase error
AfterPhaseStopOnError(phase, err, failed) ==
    IF err # NoError \/ failed THEN "returned"
    ELSE CASE phase = "deps" -> "stow"
           [] phase = "stow" -> "external"
           [] phase = "external" -> "machine"
           [] OTHER -> "returned"

\* where Install goes after a phase, whose function returned err and
\* which recorded per-item failures or not: on to the next one
AfterPhase(phase, err, failed) ==
    CASE phase = "deps" -> "stow"
      [] phase = "stow" -> "external"
      [] phase = "external" -> "machine"
      [] OTHER -> "returned"

\* result.Errors = append(result.Errors, err) when the phase returned one
AppendError(r, err) == IF err # NoError THEN [r EXCEPT !.Errors = Append(@, err)] ELSE r

installDependencies(items, pkgs_, outcome, exit) ==
    LET check == DepsCheck(items, pkgs_, outcome)
        none == [err |-> NoError, Installed |-> <<>>, Failed |-> <<>>,
                 calls |-> check.calls, pkgs |-> pkgs_]
    IN  IF check.err # NoError
        THEN [none EXCEPT !.err = Errorf("failed to check dependencies", check.err.exit)]
        ELSE IF Len(check.missing) = 0 THEN none
        ELSE LET inst == DepsInstall(items, pkgs_, outcome, exit)
             IN  IF inst.err # NoError
                 THEN [none EXCEPT !.err = Errorf("failed to install dependencies", 0)]
                 ELSE [err |-> NoError, Installed |-> inst.Installed,
                       Failed |-> inst.Failed, calls |-> check.calls \o inst.calls,
                       pkgs |-> inst.pkgs]

\* cfg.GetAllConfigs(): the core groups, then the optional ones
GetAllConfigs(m) == m.Core \o m.Optional

\* a variant that takes every config whatever opts.Minimal says
stowConfigsIgnoringMinimal(m, o, dirs_, links_, exit) ==
    LET configs == GetAllConfigs(m)
    IN  IF Len(configs) = 0
        THEN [err |-> NoError, Stowed |-> <<>>, Failed |-> <<>>, calls |-> <<>>,
              links |-> links_]
        ELSE LET out == StowConfigs(configs, dirs_, links_,
                                    [p \in ConfigPaths(configs) |-> exit[p]])
             IN  [err |-> NoError, Stowed |-> out.res.Success, Failed |-> out.res.Failed,
                  calls |-> out.calls, links |-> out.links]

stowConfigs(m, o, dirs_, links_, exit) ==
    LET configs == IF o.Minimal THEN m.Core ELSE GetAllConfigs(m)
    IN  IF Len(configs) = 0
        THEN [err |-> NoError, Stowed |-> <<>>, Failed |-> <<>>, calls |-> <<>>,
              links |-> links_]
        ELSE LET out == StowConfigs(configs, dirs_, links_,
                                    [p \in ConfigPaths(configs) |-> exit[p]])
             IN  [err |-> NoError, Stowed |-> out.res.Success, Failed |-> out.res.Failed,
                  calls |-> out.calls, links |-> out.links]

cloneExternal(exts, p, git, home, outcome, dest_, parents_, cloned_) ==
    LET none == [err |-> NoError, Cloned |-> <<>>, Failed |-> <<>>, calls |-> <<>>,
                 dest |-> dest_, parents |-> parents_, cloned |-> cloned_]
    IN  IF Len(exts) = 0 THEN none
        ELSE LET out == CloneExternal(exts, p, [DryRun |-> FALSE, Update |-> FALSE],
                                      git, home, outcome, dest_, parents_, cloned_)
             IN  IF out.err # NoError
                 THEN [none EXCEPT !.err = Errorf("failed to clone external dependencies", 0)]
                 ELSE [err |-> NoError, Cloned |-> out.res.Cloned,
                       Failed |-> out.res.Failed, calls |-> out.calls,
                       dest |-> out.dest, parents |-> out.parents, cloned |-> out.cloned]

\* fmt.Errorf("failed to collect %s: %w", mc.ID, err) and its sibling
CollectError(id) ==
    Errorf(IF id = "git" THEN "failed to collect git" ELSE "failed to collect signing", 0)
WriteError(id) ==
    Errorf(IF id = "git" THEN "failed to write git" ELSE "failed to write signing", 0)

\* a variant of the loop that ends at the first config that fails
RECURSIVE configureMachineFromStopAtFailure(_, _, _, _, _, _, _)
configureMachineFromStopAtFailure(i, mcs, needsConfig, o, readers, writeOK, acc) ==
    IF i > Len(needsConfig) THEN acc
    ELSE LET mc == needsConfig[i]
             promptResult == CollectSingleConfig(mcs, mc.ID, readers[mc.ID], o.Auto)
             asked == [acc EXCEPT !.calls = @ \o promptResult.calls]
             renderResult == RenderAndWrite(mc, promptResult.Values, o.Overwrite,
                                            acc.mcfile, writeOK)
             wrote == [asked EXCEPT !.calls = @ \o renderResult.calls,
                                    !.mcfile = renderResult.mcfile]
         IN  IF promptResult.err # NoError
             THEN [asked EXCEPT !.Errors = Append(@, CollectError(mc.ID))]
             ELSE IF renderResult.err # NoError
             THEN [wrote EXCEPT !.Errors = Append(@, WriteError(mc.ID))]
             ELSE configureMachineFromStopAtFailure(i + 1, mcs, needsConfig, o, readers,
                      writeOK,
                      [wrote EXCEPT !.MachineConfigs = Append(@, renderResult.res)])

\* the collect-and-render loop of configureMachine
RECURSIVE configureMachineFrom(_, _, _, _, _, _, _)
configureMachineFrom(i, mcs, needsConfig, o, readers, writeOK, acc) ==
    IF i > Len(needsConfig) THEN acc
    ELSE LET mc == needsConfig[i]
             promptResult == CollectSingleConfig(mcs, mc.ID, readers[mc.ID], o.Auto)
             asked == [acc EXCEPT !.calls = @ \o promptResult.calls]
             renderResult == RenderAndWrite(mc, promptResult.Values, o.Overwrite,
                                            acc.mcfile, writeOK)
             wrote == [asked EXCEPT !.calls = @ \o renderResult.calls,
                                    !.mcfile = renderResult.mcfile]
         IN  configureMachineFrom(i + 1, mcs, needsConfig, o, readers, writeOK,
                 IF promptResult.err # NoError
                 THEN [asked EXCEPT !.Errors =
                          Append(@, CollectError(mc.ID))]
                 ELSE IF renderResult.err # NoError
                 THEN [wrote EXCEPT !.Errors =
                          Append(@, WriteError(mc.ID))]
                 ELSE [wrote EXCEPT !.MachineConfigs = Append(@, renderResult.res)])

\* a variant that configures every config again when Overwrite is set
configureMachineAgainOnOverwrite(mcs, o, mcfile_, readers, writeOK) ==
    LET none == [err |-> NoError, MachineConfigs |-> <<>>, Errors |-> <<>>,
                 calls |-> <<>>, mcfile |-> mcfile_]
        statuses == CheckMachineConfigStatus(mcs, mcfile_)
        missing == SelectSeq(statuses, LAMBDA s : s.Status = "missing" \/ o.Overwrite)
        needsConfig == [k \in DOMAIN missing |->
                           CHOOSE mc \in GetMachineConfigByID(mcs, missing[k].ID) : TRUE]
    IN  IF Len(mcs) = 0 THEN none
        ELSE IF Len(needsConfig) = 0 THEN none
        ELSE configureMachineFrom(1, mcs, needsConfig, o, readers, writeOK, none)

configureMachine(mcs, o, mcfile_, readers, writeOK) ==
    LET none == [err |-> NoError, MachineConfigs |-> <<>>, Errors |-> <<>>,
                 calls |-> <<>>, mcfile |-> mcfile_]
        statuses == CheckMachineConfigStatus(mcs, mcfile_)
        missing == SelectSeq(statuses, LAMBDA s : s.Status = "missing")
        needsConfig == [k \in DOMAIN missing |->
                           CHOOSE mc \in GetMachineConfigByID(mcs, missing[k].ID) : TRUE]
    IN  IF Len(mcs) = 0 THEN none
        ELSE IF Len(needsConfig) = 0 THEN none
        ELSE configureMachineFrom(1, mcs, needsConfig, o, readers, writeOK, none)

(***************************************************************************)
(* package setup: Uninstall and Update.  fs is the filesystem the call     *)
(* finds (group directories, links, external destinations, machine config  *)
(* files); env holds what the environment decides during the call.         *)
(***************************************************************************)
UninstallOptions == [RemoveExternal : BOOLEAN, RemoveMachine : BOOLEAN]
UpdateOptions == [UpdateExternal : BOOLEAN, SkipRestow : BOOLEAN]

\* cfg.GetConfigByName: the declared items of that name (none stands for nil)
GetConfigByName(m, name) ==
    {GetAllConfigs(m)[i] : i \in {j \in DOMAIN GetAllConfigs(m) : GetAllConfigs(m)[j].name = name}}

\* st.Configs as the list the state file holds
StateConfigList(st) ==
    SelectSeq([i \in 1..NumGroups |-> ConfigItem(i).name], LAMBDA n : n \in st.Configs)

\* the loop over st.Configs that keeps the entries the manifest declares
ConfigsFromState(m, st) ==
    LET found == SelectSeq(StateConfigList(st), LAMBDA n : GetConfigByName(m, n) # {})
    IN  [k \in DOMAIN found |-> CHOOSE c \in GetConfigByName(m, found[k]) : TRUE]

\* a variant that unstows every declared config whatever the state lists
ConfigsToUnstowAll(m, st) == GetAllConfigs(m)

ConfigsToUnstow(m, st) ==
    IF st.exists /\ st.Configs # {} THEN ConfigsFromState(m, st) ELSE GetAllConfigs(m)

\* a variant that falls back to every declared config
ConfigsToRestowAll(m, st) ==
    IF st.exists /\ st.Configs # {} THEN ConfigsFromState(m, st) ELSE GetAllConfigs(m)

ConfigsToRestow(m, st) ==
    IF st.exists /\ st.Configs # {} THEN ConfigsFromState(m, st) ELSE m.Core

\* a call of another package of the tool: deps, machine or config
ToolCall(tool, mode, id, code) == [tool |-> tool, mode |-> mode, pkg |-> id, exit |-> code]

\* a variant that removes the destination whatever DryRun says
RemoveExternalDespiteDryRun(exts, id, opts, home, rmOK, dest_) ==
    LET found == {k \in DOMAIN exts : exts[k].id = id}
        failed(msg) == [err |-> Errorf(msg, 0), dest |-> dest_, removed |-> {}]
    IN  IF found = {} THEN failed("external dependency not found")
        ELSE LET ext == exts[CHOOSE k \in found : \A j \in found : k <= j]
                 expanded == expandPath(ext.destination, home)
                 destPath == expanded.path
             IN  IF expanded.err # NoError THEN failed("failed to expand path")
                 ELSE IF IsNotExist(dest_[destPath]) THEN failed("not installed")
                 ELSE IF ~rmOK[destPath] THEN failed("failed to remove")
                 ELSE [err |-> NoError, dest |-> [dest_ EXCEPT ![destPath] = "absent"],
                       removed |-> {destPath}]

\* deps.RemoveExternal; rmOK tells whether os.RemoveAll of a destination
\* succeeds
RemoveExternal(exts, id, opts, home, rmOK, dest_) ==
    LET found == {k \in DOMAIN exts : exts[k].id = id}
        failed(msg) == [err |-> Errorf(msg, 0), dest |-> dest_, removed |-> {}]
    IN  IF found = {} THEN failed("external dependency not found")
        ELSE LET ext == exts[CHOOSE k \in found : \A j \in found : k <= j]
                 expanded == expandPath(ext.destination, home)
                 destPath == expanded.path
             IN  IF expanded.err # NoError THEN failed("failed to expand path")
                 ELSE IF IsNotExist(dest_[destPath]) THEN failed("not installed")
                 ELSE IF opts.DryRun THEN [err |-> NoError, dest |-> dest_, removed |-> {}]
                 ELSE IF ~rmOK[destPath] THEN failed("failed to remove")
                 ELSE [err |-> NoError, dest |-> [dest_ EXCEPT ![destPath] = "absent"],
                       removed |-> {destPath}]

\* the loop of Uninstall over cfg.External
RECURSIVE RemoveExternalFrom(_, _, _, _, _)
RemoveExternalFrom(i, exts, home, rmOK, acc) ==
    IF i > Len(exts) THEN acc
    ELSE LET out == RemoveExternal(exts, exts[i].id, [DryRun |-> FALSE, Update |-> FALSE],
                                   home, rmOK, acc.dest)
         IN  RemoveExternalFrom(i + 1, exts, home, rmOK,
                 [dest |-> out.dest, removed |-> acc.removed \cup out.removed,
                  calls |-> Append(acc.calls,
                                   ToolCall("deps", "RemoveExternal", exts[i].id,
                                            IF out.err = NoError THEN 0 ELSE 1))])

\* machine.RemoveMachineConfig for every declared config
RemoveMachineConfigs(mcs, mcfile_, mcRmOK) ==
    {mcs[i].ID : i \in {j \in DOMAIN mcs : mcs[j].ID \in mcfile_ /\ mcRmOK}}

\* a variant that gives up, leaving the state file, when a group failed
\* to unstow
UninstallStopOnFailure(m, exts, st, o, fs, env) ==
    LET configs == ConfigsToUnstow(m, st)
        unstow == IF Len(configs) > 0
                  THEN UnstowConfigs(configs, fs.dirs, fs.links,
                                     [p \in ConfigPaths(configs) |-> env.exit[p]])
                  ELSE StowAcc(fs.links)
        ext == IF o.RemoveExternal /\ Len(exts) > 0
               THEN RemoveExternalFrom(1, exts, env.home, env.rmOK,
                                       [dest |-> fs.dest, removed |-> {}, calls |-> <<>>])
               ELSE [dest |-> fs.dest, removed |-> {}, calls |-> <<>>]
        failed == Len(unstow.res.Failed) > 0
        deleted == env.deleteOK /\ ~failed
    IN  [err |-> IF deleted THEN NoError ELSE Errorf("uninstall failed", 0),
         configs |-> configs,
         called |-> Len(configs) > 0,
         res |-> unstow.res,
         calls |-> unstow.calls \o ext.calls \o
                   (IF failed THEN <<>>
                    ELSE <<StateCall("Delete", "all", IF env.deleteOK THEN 0 ELSE 1)>>),
         links |-> unstow.links,
         dest |-> ext.dest,
         mcfile |-> fs.mcfile,
         stfile |-> IF deleted THEN NoState ELSE st,
         removed |-> [external |-> ext.removed, machine |-> {},
                      state |-> deleted /\ st.exists]]

Uninstall(m, exts, st, o, fs, env) ==
    LET configs == ConfigsToUnstow(m, st)
        unstow == IF Len(configs) > 0
                  THEN UnstowConfigs(configs, fs.dirs, fs.links,
                                     [p \in ConfigPaths(configs) |-> env.exit[p]])
                  ELSE StowAcc(fs.links)
        ext == IF o.RemoveExternal /\ Len(exts) > 0
               THEN RemoveExternalFrom(1, exts, env.home, env.rmOK,
                                       [dest |-> fs.dest, removed |-> {}, calls |-> <<>>])
               ELSE [dest |-> fs.dest, removed |-> {}, calls |-> <<>>]
        mach == IF o.RemoveMachine /\ Len(m.MachineConfig) > 0
                THEN RemoveMachineConfigs(m.MachineConfig, fs.mcfile, env.mcRmOK)
                ELSE {}
        machCalls == IF o.RemoveMachine
                     THEN [k \in DOMAIN m.MachineConfig |->
                              ToolCall("machine", "RemoveMachineConfig", m.MachineConfig[k].ID,
                                          IF env.mcRmOK THEN 0 ELSE 1)]
                     ELSE <<>>
    IN  [err |-> IF env.deleteOK THEN NoError
                 ELSE Errorf("failed to remove state file", 0),
         configs |-> configs,
         called |-> Len(configs) > 0,
         res |-> unstow.res,
         calls |-> unstow.calls \o ext.calls \o machCalls \o
                   <<StateCall("Delete", "all", IF env.deleteOK THEN 0 ELSE 1)>>,
         links |-> unstow.links,
         dest |-> ext.dest,
         mcfile |-> fs.mcfile \ mach,
         stfile |-> IF env.deleteOK THEN NoState ELSE st,
         removed |-> [external |-> ext.removed, machine |-> mach,
                      state |-> env.deleteOK /\ st.exists]]

\* the manifest after a pull that changed it: the optional group is gone
ReloadedManifest(m) == [m EXCEPT !.Optional = <<>>]

\* cfg.External of that manifest: the first asset is gone
ReloadedExternal(exts) == IF exts = <<>> THEN <<>> ELSE Tail(exts)

\* a variant that restows even when the pull failed
UpdateDespitePullFailure(m, exts, st, o, p, fs, env) ==
    LET pull == GitCall("pull --rebase", <<"repo">>, IF env.pullOK THEN 0 ELSE 1)
        configs == IF o.SkipRestow THEN <<>> ELSE ConfigsToRestow(m, st)
        restow == IF Len(configs) > 0
                  THEN RestowConfigs(configs, fs.dirs, fs.links,
                                     [q \in ConfigPaths(configs) |-> env.exit[q]])
                  ELSE StowAcc(fs.links)
    IN  [err |-> IF env.isRepo /\ env.pullOK THEN NoError ELSE Errorf("git pull failed", 1),
         manifest |-> m, external |-> exts, configs |-> configs,
         called |-> Len(configs) > 0, res |-> restow.res,
         calls |-> <<pull>> \o restow.calls, links |-> restow.links,
         ext |-> ExtAcc(fs.dest, fs.parents, fs.cloned) @@ [err |-> NoError]]

\* a variant that restows before it looks at what the pull changed
UpdateRestowFirst(m, exts, st, o, p, fs, env) ==
    LET pull == GitCall("pull --rebase", <<"repo">>, IF env.pullOK THEN 0 ELSE 1)
        load == IF env.reload \in {"changed", "fail"}
                THEN <<ToolCall("config", "LoadFromPath", "manifest",
                           IF env.reload = "changed" THEN 0 ELSE 1)>>
                ELSE <<>>
        cfg == IF env.reload = "changed" THEN ReloadedManifest(m) ELSE m
        configs == IF o.SkipRestow THEN <<>> ELSE ConfigsToRestow(m, st)
        restow == IF Len(configs) > 0
                  THEN RestowConfigs(configs, fs.dirs, fs.links,
                                     [q \in ConfigPaths(configs) |-> env.exit[q]])
                  ELSE StowAcc(fs.links)
    IN  [err |-> NoError, manifest |-> cfg, external |-> exts, configs |-> configs,
         called |-> Len(configs) > 0, res |-> restow.res,
         calls |-> <<pull>> \o restow.calls \o load, links |-> restow.links,
         ext |-> ExtAcc(fs.dest, fs.parents, fs.cloned) @@ [err |-> NoError]]

\* Update: env.reload is "same" (HEAD or the manifest file unchanged),
\* "changed" (the manifest is loaded again), "fail" (loading it fails:
\* setup.Update goes on with the old manifest, the command ends) or
\* "missed" (the manifest file changed but git rev-parse or git diff
\* failed, so that no change is seen)
Update(m, exts, st, o, p, fs, env) ==
    LET stopped(msg, cs) ==
            [err |-> Errorf(msg, 1), manifest |-> m, external |-> exts,
             configs |-> <<>>, called |-> FALSE,
             res |-> EmptyStowResult, calls |-> cs, links |-> fs.links,
             ext |-> ExtAcc(fs.dest, fs.parents, fs.cloned) @@ [err |-> NoError]]
        pull == GitCall("pull --rebase", <<"repo">>, IF env.pullOK THEN 0 ELSE 1)
        load == IF env.reload \in {"changed", "fail"}
                THEN <<ToolCall("config", "LoadFromPath", "manifest",
                           IF env.reload = "changed" THEN 0 ELSE 1)>>
                ELSE <<>>
        cfg == IF env.reload = "changed" THEN ReloadedManifest(m) ELSE m
        cfgExt == IF env.reload = "changed" THEN ReloadedExternal(exts) ELSE exts
        configs == IF o.SkipRestow THEN <<>> ELSE ConfigsToRestow(cfg, st)
        restow == IF Len(configs) > 0
                  THEN RestowConfigs(configs, fs.dirs, fs.links,
                                     [q \in ConfigPaths(configs) |-> env.exit[q]])
                  ELSE StowAcc(fs.links)
        ext == IF o.UpdateExternal /\ Len(cfgExt) > 0 /\ env.detectOK
               THEN CloneExternal(cfgExt, p, [DryRun |-> FALSE, Update |-> TRUE], env.git,
                                  env.home, env.outcome, fs.dest, fs.parents, fs.cloned)
               ELSE ExtAcc(fs.dest, fs.parents, fs.cloned) @@ [err |-> NoError]
    IN  IF ~env.isRepo THEN stopped("not a git repository", <<>>)
        ELSE IF ~env.pullOK THEN stopped("git pull failed", <<pull>>)
        ELSE IF env.reload = "fail" /\ env.viaCmd
        THEN stopped("failed to reload config", <<pull>> \o load)
        ELSE [err |-> NoError, manifest |-> cfg, external |-> cfgExt, configs |-> configs,
              called |-> Len(configs) > 0,
              res |-> restow.res,
              calls |-> <<pull>> \o load \o restow.calls \o ext.calls \o
                        (IF st.exists
                         THEN <<StateCall("Save", "all", IF env.saveOK THEN 0 ELSE 1)>>
                         ELSE <<>>),
              links |-> restow.links, ext |-> ext]

(***************************************************************************)
(* The install command (installCmd.Run) after setup.Install returned, and  *)
(* the reconfigure command (reconfigureCmd.Run).  saveOK and loadOK tell   *)
(* whether writing and reading the state file succeed in this run.         *)
(***************************************************************************)
\* a variant that saves the state whatever the result holds
installCmdRunAlwaysSave(rv, r, st, saveOK) ==
    IF rv.err # NoError
    THEN [exit |-> 1, stfile |-> st, calls |-> <<>>]
    ELSE [exit |-> IF HasErrors(r) THEN 1 ELSE 0,
          stfile |-> IF saveOK THEN SaveState(r) ELSE st,
          calls |-> <<StateCall("SaveState", "all", IF saveOK THEN 0 ELSE 1)>>]

installCmdRun(rv, r, st, saveOK) ==
    IF rv.err # NoError
    THEN [exit |-> 1, stfile |-> st, calls |-> <<>>]
    ELSE IF HasErrors(r)
    THEN [exit |-> 1, stfile |-> st, calls |-> <<>>]
    ELSE [exit |-> 0,
          stfile |-> IF saveOK THEN SaveState(r) ELSE st,
          calls |-> <<StateCall("SaveState", "all", IF saveOK THEN 0 ELSE 1)>>]

\* the "Update state" block: SetMachineConfig for each render result,
\* then one Save; nothing when no state was loaded
RECURSIVE SetAll(_, _, _)
SetAll(i, renderResults, st) ==
    IF i > Len(renderResults) THEN st
    ELSE SetAll(i + 1, renderResults, SetMachineConfig(st, renderResults[i].ID))

UpdateState(out, renderResults, st, loaded, saveOK) ==
    IF ~loaded THEN out
    ELSE [out EXCEPT
             !.calls = @ \o [k \in DOMAIN renderResults |->
                                StateCall("SetMachineConfig", renderResults[k].ID, 0)]
                         \o <<StateCall("Save", "all", IF saveOK THEN 0 ELSE 1)>>,
             !.stfile = IF saveOK THEN SetAll(1, renderResults, st) ELSE st]

reconfigureCmdRun(mcs, specificID, skipPrompts, readers, writeOK, mcfile_, st, loadOK, saveOK) ==
    LET loaded == loadOK /\ st.exists
        done == [exit |-> 0, calls |-> <<>>, mcfile |-> mcfile_, stfile |-> st]
        failed == [done EXCEPT !.exit = 1]
    IN  IF Len(mcs) = 0 THEN done
        ELSE IF specificID # ""
        THEN IF GetMachineConfigByID(mcs, specificID) = {} THEN failed
             ELSE LET mc == CHOOSE m \in GetMachineConfigByID(mcs, specificID) : TRUE
                      collected == CollectSingleConfig(mcs, specificID,
                                                       readers[specificID], skipPrompts)
                      renderResult == RenderAndWrite(mc, collected.Values, TRUE,
                                                     mcfile_, writeOK)
                  IN  IF collected.err # NoError
                      THEN [failed EXCEPT !.calls = collected.calls]
                      ELSE IF renderResult.err # NoError
                      THEN [failed EXCEPT !.calls = collected.calls \o renderResult.calls]
                      ELSE UpdateState([done EXCEPT
                                           !.calls = collected.calls \o renderResult.calls,
                                           !.mcfile = renderResult.mcfile],
                                       <<renderResult.res>>, st, loaded, saveOK)
        ELSE LET results == CollectMachineConfig(mcs, readers, skipPrompts)
                 rendered == RenderAll(mcs, results.results, TRUE, mcfile_, writeOK)
             IN  IF results.err # NoError
                 THEN [failed EXCEPT !.calls = results.calls]
                 ELSE IF rendered.err # NoError
                 THEN [failed EXCEPT !.calls = results.calls \o rendered.calls,
                                     !.mcfile = rendered.mcfile]
                 ELSE UpdateState([done EXCEPT
                                      !.calls = results.calls \o rendered.calls,
                                      !.mcfile = rendered.mcfile],
                                  rendered.results, st, loaded, saveOK)

(***************************************************************************)
(* Specification SpecStow: the three batch operations, each applied to an  *)
(* arbitrary list of distinct groups, over an arbitrary dotfiles           *)
(* repository, with arbitrary tool outcomes.                               *)
(***************************************************************************)
\* the parts of the state a specification does not exercise stay as here
StowIdle ==
    /\ dirs = [p \in GroupPaths |-> "dir"]
    /\ links = {}
    /\ stowInput = <<>>
    /\ stowOp = "none"
    /\ stowRes = EmptyStowResult

ExtIdle ==
    /\ platform = CHOOSE p \in Platforms : p.OS = Str("linux")
    /\ external = <<>>
    /\ dest = [p \in ExtPaths |-> "absent"]
    /\ parents = {}
    /\ gitAvailable = TRUE
    /\ homeOK = TRUE
    /\ extOpts = [DryRun |-> FALSE, Update |-> FALSE]
    /\ extRes = EmptyExternalResult
    /\ extErr = NoError
    /\ clonedBy = {}
    /\ destBefore = [p \in ExtPaths |-> "absent"]
    /\ extStatus = <<>>

InstIdle ==
    /\ manifest = [Core |-> <<>>, Optional |-> <<>>, Archived |-> <<>>,
                   MachineConfig |-> <<>>,
                   Dependencies |-> <<>>]
    /\ cmd = "none"
    /\ installOpts = NoOptions
    /\ result = EmptyInstallResult
    /\ ret = NotReturned
    /\ started = <<>>
    /\ pkgs = {}
    /\ mcfile = {}
    /\ stfile = NoState
    /\ exitCode = 0
    /\ rerun = FALSE
    /\ gitOutcome = [p \in DestPaths(external) |-> "ok"]

NoPromptRun ==
    /\ promptIn = [field |-> PromptField("key", "text", <<>>, FALSE), reader |-> <<>>,
                   skip |-> FALSE]
    /\ promptOut = [value |-> <<>>, err |-> NoError, rest |-> <<>>, asked |-> 0]

NoRun == [kind |-> "none"]

NoMaintenance ==
    /\ cmdOpts = [RemoveExternal |-> FALSE, RemoveMachine |-> FALSE]
    /\ inRepo = {}
    /\ removed = [external |-> {}, machine |-> {}, state |-> FALSE]
    /\ stLoaded = NoState
    /\ lastRun = NoRun

InitStow ==
    /\ dirs \in [GroupPaths -> DirStatus]
    /\ links = {}
    /\ pc = "idle"
    /\ calls = <<>>
    /\ stowInput = <<>>
    /\ stowOp = "none"
    /\ stowRes = EmptyStowResult
    /\ ExtIdle
    /\ InstIdle
    /\ NoPromptRun
    /\ NoMaintenance

BatchDone(op, configs, out) ==
    /\ pc' = "done"
    /\ stowOp' = op
    /\ stowInput' = configs
    /\ stowRes' = out.res
    /\ calls' = out.calls
    /\ links' = out.links
    /\ UNCHANGED <<dirs, extVars, instVars>>

StowBatch ==
    /\ pc = "idle"
    /\ \E configs \in DistinctSeqs(Groups, NumGroups) :
       \E exit \in [ConfigPaths(configs) -> ExitCodes] :
       \E out \in {StowConfigs(configs, dirs, links, exit)} :
          BatchDone("stow", configs, out)

UnstowBatch ==
    /\ pc = "idle"
    /\ \E configs \in DistinctSeqs(Groups, NumGroups) :
       \E exit \in [ConfigPaths(configs) -> ExitCodes] :
       \E out \in {UnstowConfigs(configs, dirs, links, exit)} :
          BatchDone("unstow", configs, out)

RestowBatch ==
    /\ pc = "idle"
    /\ \E configs \in DistinctSeqs(Groups, NumGroups) :
       \E exit \in [ConfigPaths(configs) -> ExitCodes] :
       \E out \in {RestowConfigs(configs, dirs, links, exit)} :
          BatchDone("restow", configs, out)

NextStow == StowBatch \/ UnstowBatch \/ RestowBatch

SpecStow == InitStow /\ [][NextStow]_vars

(***************************************************************************)
(* Specification SpecExt: CloneExternal run any number of times on one     *)
(* machine, each run with its own options and its own git outcomes.  The   *)
(* manifest is any list of distinct assets of the pool; nothing but the    *)
(* tool itself changes the filesystem between runs.                        *)
(***************************************************************************)
InitExt ==
    /\ pc = "idle"
    /\ calls = <<>>
    /\ StowIdle
    /\ platform \in Platforms
    /\ external \in DistinctSeqs(ExternalPool, MaxExternal)
    /\ dest \in [ExtPaths -> {"absent", "file", "denied"}]
    /\ \A e \in ExternalPool : e \notin Range(external) => dest[e.destination.path] = "absent"
    /\ parents = {}
    /\ gitAvailable \in BOOLEAN
    /\ homeOK \in BOOLEAN
    /\ extOpts = [DryRun |-> FALSE, Update |-> FALSE]
    /\ extRes = EmptyExternalResult
    /\ extErr = NoError
    /\ clonedBy = {}
    /\ destBefore = dest
    /\ extStatus = <<>>
    /\ InstIdle
    /\ NoPromptRun
    /\ NoMaintenance

CloneExternalRun ==
    /\ pc \in {"idle", "done"}
    /\ \E opts \in ExternalOptions, outcome \in [DestPaths(external) -> GitOutcomes] :
          \E out \in {CloneExternal(external, platform, opts, gitAvailable, homeOK,
                                    outcome, dest, parents, clonedBy)} :
              /\ extOpts' = opts
              /\ extRes' = out.res
              /\ extErr' = out.err
              /\ calls' = out.calls
              /\ dest' = out.dest
              /\ parents' = out.parents
              /\ clonedBy' = out.cloned
    /\ destBefore' = dest
    /\ extStatus' = <<>>
    /\ pc' = "done"
    /\ UNCHANGED <<stowVars, platform, external, gitAvailable, homeOK, instVars>>

\* a status query of the declared assets
CheckExternalStatusRun ==
    /\ pc \in {"idle", "done"}
    /\ extStatus = <<>>
    /\ extStatus' = CheckExternalStatus(external, platform, homeOK, dest)
    /\ extStatus' # <<>>
    /\ UNCHANGED <<pc, calls, stowVars, platform, external, dest, parents, gitAvailable,
                   homeOK, extOpts, extRes, extErr, clonedBy, destBefore, instVars>>

NextExt == CloneExternalRun \/ CheckExternalStatusRun

SpecExt == InitExt /\ [][NextExt]_vars

(***************************************************************************)
(* Specification SpecPrompt: one call of collectSinglePrompt, for every    *)
(* field, every terminal of at most MaxLines lines and both modes.         *)
(***************************************************************************)
MaxLines == 2

FieldIds == {"enable", "key"}

PromptFields ==
    {PromptField(id, type, default, required) :
        id \in FieldIds, type \in {"text", "confirm"},
        default \in {<<>>, <<"Test", " ", "User">>}, required \in BOOLEAN}

\* the lines a user types, and a failing read
PromptLines ==
    {Str("y"), <<" ", "Yes", " ">>, Str("TRUE"), Str("1"), Str("n"), <<>>, <<" ">>,
     Str("Maybe"), Str("key1"), ReadError}

PromptReaders == UNION {[1..n -> PromptLines] : n \in 0..MaxLines}

InitPrompt ==
    /\ pc = "idle"
    /\ calls = <<>>
    /\ StowIdle
    /\ ExtIdle
    /\ InstIdle
    /\ promptIn \in [field : PromptFields, reader : PromptReaders, skip : BOOLEAN]
    /\ promptOut = [value |-> <<>>, err |-> NoError, rest |-> <<>>, asked |-> 0]
    /\ NoMaintenance

CollectSinglePromptRun ==
    /\ pc = "idle"
    /\ promptOut' = collectSinglePrompt(promptIn.field, promptIn.reader, promptIn.skip)
    /\ pc' = "done"
    /\ UNCHANGED <<calls, stowVars, extVars, manifest, cmd, installOpts, result, ret,
                   started, pkgs, mcfile, stfile, exitCode, rerun, gitOutcome, promptIn,
                   cmdOpts, inRepo, removed,
        stLoaded, lastRun>>

NextPrompt == CollectSinglePromptRun

SpecPrompt == InitPrompt /\ [][NextPrompt]_vars

(***************************************************************************)
(* Specification SpecPromptLoop: the same call, one pass of its loop at a  *)
(* time.  The loop is sequential code: a pass that can be made is made.    *)
(***************************************************************************)
\* the lines not read yet
Unread == IF pc = "idle" THEN promptIn.reader ELSE promptOut.rest

PromptIterate ==
    /\ pc \in {"idle", "reading"}
    /\ IF pc = "idle" /\ promptIn.skip
       THEN /\ promptOut' = collectSinglePrompt(promptIn.field, promptIn.reader, TRUE)
            /\ pc' = "done"
       ELSE \E out \in {promptIteration(promptIn.field, Unread)} :
            /\ promptOut' = [value |-> out.value, err |-> out.err, rest |-> out.rest,
                             asked |-> Len(promptIn.reader) - Len(Unread) + 1]
            /\ pc' = IF out.again THEN "reading" ELSE "done"
    /\ UNCHANGED <<calls, stowVars, extVars, instRest, lastRun, promptIn>>

SpecPromptLoop == InitPrompt /\ [][PromptIterate]_vars /\ WF_vars(PromptIterate)

(***************************************************************************)
(* Specification SpecBatch: the batch operations of both packages.  A      *)
(* machine whose manifest declares no external asset runs the batch stow   *)
(* operations; a machine that declares some runs CloneExternal.            *)
(***************************************************************************)
InitBatch == InitStow \/ InitExt

NextBatch == (external = <<>> /\ NextStow) \/ (external # <<>> /\ NextExt)

SpecBatch == InitBatch /\ [][NextBatch]_vars

(***************************************************************************)
(* Specification Spec: one machine on which the install command runs,      *)
(* is repeated with the same options for as long as it succeeds, and the   *)
(* reconfigure command runs any number of times, before or after.  The     *)
(* manifest is the full one (a core and an optional group, a dependency,   *)
(* two external assets, two machine configs) or the empty one.  Each       *)
(* phase of setup.Install is one step; the outcomes of the tools it        *)
(* calls are chosen by the environment.                                    *)
(***************************************************************************)
FullManifest ==
    [Core |-> <<ConfigItem(1)>>, Optional |-> <<ConfigItem(2)>>,
     Archived |-> <<ConfigItem(3)>>,
     MachineConfig |-> MachinePrompts, Dependencies |-> Dependencies]
EmptyManifest ==
    [Core |-> <<>>, Optional |-> <<>>, Archived |-> <<>>, MachineConfig |-> <<>>,
     Dependencies |-> <<>>]

\* cfg.External of the full manifest
FullExternal ==
    <<CHOOSE e \in ExternalPool : e.id = 1, CHOOSE e \in ExternalPool : e.id = 2>>

MachineIds(mcs) == {mcs[i].ID : i \in DOMAIN mcs}

\* what the terminal may hold when a machine config is collected
Readers == {
    <<>>,
    <<Str("yes"), Str("key1")>>,
    <<<<" ", "Maybe">>, <<" ", "Yes", " ">>, <<" ">>, Str("key1")>>,
    <<ReadError>> }

\* the terminal during an install run: at end of input, with answers, or
\* failing at the first read
InstallReaders == {<<>>, <<Str("yes"), Str("key1")>>, <<ReadError>>}

Init ==
    /\ pc = "idle"
    /\ calls = <<>>
    /\ manifest \in {FullManifest, EmptyManifest}
    /\ external = IF manifest = FullManifest THEN FullExternal ELSE <<>>
    /\ dirs \in [GroupPaths -> {"dir", "absent"}]
    /\ \A p \in GroupPaths : p \notin ConfigPaths(GetAllConfigs(manifest)) => dirs[p] = "dir"
    /\ links = {}
    /\ stowInput = <<>>
    /\ stowOp = "none"
    /\ stowRes = EmptyStowResult
    /\ platform = CHOOSE p \in Platforms : p.OS = Str("linux")
    /\ dest = [p \in ExtPaths |-> "absent"]
    /\ parents = {}
    /\ gitAvailable \in BOOLEAN
    /\ homeOK = TRUE
    /\ extOpts = [DryRun |-> FALSE, Update |-> FALSE]
    /\ extRes = EmptyExternalResult
    /\ extErr = NoError
    /\ clonedBy = {}
    /\ destBefore = dest
    /\ extStatus = <<>>
    /\ cmd = "none"
    /\ installOpts = NoOptions
    /\ result = EmptyInstallResult
    /\ ret = NotReturned
    /\ started = <<>>
    /\ pkgs = {}
    /\ mcfile = {}
    /\ stfile = NoState
    /\ exitCode = 0
    /\ rerun = FALSE
    /\ gitOutcome = [p \in DestPaths(external) |-> "ok"]
    /\ NoPromptRun
    /\ NoMaintenance

\* the state that no step of Install changes
machineVars == <<manifest, external, dirs, platform, gitAvailable, homeOK,
                 stowInput, stowOp, stowRes, extOpts, extRes, extErr, destBefore,
                 extStatus, promptIn, promptOut, cmdOpts, inRepo, removed,
        stLoaded, lastRun>>

\* a command process starts: nothing of the previous process remains
BeginInstall(o, again) ==
    /\ cmd' = "install"
    /\ installOpts' = o
    /\ result' = EmptyInstallResult
    /\ ret' = NotReturned
    /\ started' = <<>>
    /\ calls' = <<>>
    /\ exitCode' = 0
    /\ rerun' = again
    /\ pc' = "detect"
    /\ gitOutcome' = [p \in DestPaths(external) |-> "ok"]
    /\ UNCHANGED <<machineVars, links, dest, parents, clonedBy, pkgs, mcfile, stfile>>

\* the first install on this machine
InstallStart ==
    /\ pc = "idle"
    /\ cmd = "none"
    /\ \E o \in InstallOptions : BeginInstall(o, FALSE)

\* the same command again, right after an install run that succeeded
InstallAgain ==
    /\ pc = "exited"
    /\ cmd = "install"
    /\ exitCode = 0
    /\ BeginInstall(installOpts, TRUE)

\* Step 1: platform.Detect()
Detect ==
    /\ pc = "detect"
    /\ \E err \in {NoError, Errorf("failed to detect platform", 0)} :
          /\ pc' = AfterDetect(err)
          /\ ret' = IF err # NoError THEN Returned(TRUE, err) ELSE ret
          /\ result' = IF err # NoError THEN result ELSE [result EXCEPT !.Platform = platform]
    /\ UNCHANGED <<machineVars, links, dest, parents, clonedBy, gitOutcome, pkgs, mcfile, stfile,
                   calls, cmd, installOpts, started, exitCode, rerun>>

\* Install moves on from a phase; after the last one it returns the result
Proceed(phase, err, failed) ==
    /\ pc' = AfterPhase(phase, err, failed)
    /\ ret' = IF AfterPhase(phase, err, failed) = "returned"
              THEN Returned(FALSE, NoError) ELSE ret

SkipPhase(phase) ==
    /\ Proceed(phase, NoError, FALSE)
    /\ UNCHANGED <<machineVars, links, dest, parents, clonedBy, gitOutcome, pkgs,
                   mcfile, stfile,
                   calls, cmd, installOpts, result, started, exitCode, rerun>>

\* Step 2: dependencies
DepsPhase ==
    /\ pc = "deps"
    /\ IF Skipped(installOpts, "deps") THEN SkipPhase("deps")
       ELSE \E outcome \in DepOutcomes :
            \E exit \in [DepNames(manifest.Dependencies) -> {0, 1}] :
            \E out \in {installDependencies(manifest.Dependencies, pkgs, outcome, exit)} :
               /\ started' = Append(started, "deps")
               /\ result' = AppendError([result EXCEPT !.DepsInstalled = out.Installed,
                                                       !.DepsFailed = out.Failed], out.err)
               /\ calls' = calls \o out.calls
               /\ pkgs' = out.pkgs
               /\ Proceed("deps", out.err, Len(out.Failed) > 0)
               /\ UNCHANGED <<machineVars, links, dest, parents, clonedBy, gitOutcome,
                              mcfile, stfile,
                              cmd, installOpts, exitCode, rerun>>

\* Step 3: stow
StowPhase ==
    /\ pc = "stow"
    /\ IF Skipped(installOpts, "stow") THEN SkipPhase("stow")
       ELSE \E exit \in [ConfigPaths(GetAllConfigs(manifest)) -> ExitCodes] :
            \E out \in {stowConfigs(manifest, installOpts, dirs, links, exit)} :
               /\ started' = Append(started, "stow")
               /\ result' = AppendError([result EXCEPT !.ConfigsStowed = out.Stowed,
                                                       !.ConfigsFailed = out.Failed], out.err)
               /\ calls' = calls \o out.calls
               /\ links' = out.links
               /\ Proceed("stow", out.err, Len(out.Failed) > 0)
               /\ UNCHANGED <<machineVars, dest, parents, clonedBy, gitOutcome, pkgs,
                              mcfile, stfile,
                              cmd, installOpts, exitCode, rerun>>

\* Step 4: external assets
ExternalPhase ==
    /\ pc = "external"
    /\ IF Skipped(installOpts, "external") THEN SkipPhase("external")
       ELSE \E outcome \in [DestPaths(external) -> GitOutcomes] :
            \E out \in {cloneExternal(external, platform, gitAvailable, homeOK, outcome,
                                      dest, parents, clonedBy)} :
               /\ started' = Append(started, "external")
               /\ result' = AppendError([result EXCEPT !.ExternalCloned = out.Cloned,
                                                       !.ExternalFailed = out.Failed], out.err)
               /\ calls' = calls \o out.calls
               /\ dest' = out.dest
               /\ parents' = out.parents
               /\ clonedBy' = out.cloned
               /\ gitOutcome' = IF out.err = NoError THEN outcome ELSE gitOutcome
               /\ Proceed("external", out.err, Len(out.Failed) > 0)
               /\ UNCHANGED <<machineVars, links, pkgs, mcfile, stfile,
                              cmd, installOpts, exitCode, rerun>>

\* Step 5: machine configuration
MachinePhase ==
    /\ pc = "machine"
    /\ IF Skipped(installOpts, "machine") THEN SkipPhase("machine")
       ELSE \E readers \in [MachineIds(manifest.MachineConfig) -> InstallReaders] :
            \E writeOK \in [MachineIds(manifest.MachineConfig) -> BOOLEAN] :
            \E out \in {configureMachine(manifest.MachineConfig, installOpts, mcfile,
                                         readers, writeOK)} :
               /\ started' = Append(started, "machine")
               /\ result' = AppendError([result EXCEPT
                                            !.MachineConfigs = @ \o out.MachineConfigs,
                                            !.Errors = @ \o out.Errors], out.err)
               /\ calls' = calls \o out.calls
               /\ mcfile' = out.mcfile
               /\ Proceed("machine", out.err, Len(out.Errors) > 0)
               /\ UNCHANGED <<machineVars, links, dest, parents, clonedBy, gitOutcome,
                              pkgs, stfile,
                              cmd, installOpts, exitCode, rerun>>

\* installCmd.Run after setup.Install returned
InstallCmdFinish ==
    /\ pc = "returned"
    /\ \E saveOK \in BOOLEAN :
       \E out \in {installCmdRun(ret, result, stfile, saveOK)} :
          /\ exitCode' = out.exit
          /\ stfile' = out.stfile
          /\ calls' = calls \o out.calls
    /\ pc' = "exited"
    /\ UNCHANGED <<machineVars, links, dest, parents, clonedBy, gitOutcome, pkgs, mcfile,
                   cmd, installOpts, result, ret, started, rerun>>

\* the command's process ends: nothing of it remains in memory
CommandExits ==
    /\ pc = "exited"
    /\ pc' = "idle"
    /\ installOpts' = NoOptions
    /\ result' = EmptyInstallResult
    /\ ret' = NotReturned
    /\ started' = <<>>
    /\ calls' = <<>>
    /\ rerun' = FALSE
    /\ gitOutcome' = [p \in DestPaths(external) |-> "ok"]
    /\ UNCHANGED <<machineVars, links, dest, parents, clonedBy, pkgs, mcfile, stfile,
                   cmd, exitCode>>

\* what a reconfigure run is given: its argument and flag, the terminal
\* of each config it collects, which writes succeed, and whether the
\* state file can be read and written
ReconfigureInputs ==
    LET ids == MachineIds(MachinePrompts)
        only(id, v, other) == [i \in ids |-> IF id \in {"", i} THEN v[i] ELSE other]
    IN  {[specificID |-> id, skipPrompts |-> skip,
          readers |-> only(id, r, <<>>), writeOK |-> only(id, w, TRUE),
          loadOK |-> io # "noload", saveOK |-> io # "nosave"] :
            id \in {""} \cup ids, skip \in BOOLEAN,
            r \in [ids -> Readers], w \in [ids -> BOOLEAN],
            io \in {"ok", "noload", "nosave"}}

\* reconfigureCmd.Run: one machine config, or all of them
ReconfigureCmd ==
    /\ pc = "idle"
    /\ \E in \in ReconfigureInputs :
       \E out \in {reconfigureCmdRun(manifest.MachineConfig, in.specificID, in.skipPrompts,
                                     in.readers, in.writeOK, mcfile, stfile,
                                     in.loadOK, in.saveOK)} :
          /\ exitCode' = out.exit
          /\ calls' = out.calls
          /\ mcfile' = out.mcfile
          /\ stfile' = out.stfile
    /\ cmd' = "reconfigure"
    /\ pc' = "exited"
    /\ UNCHANGED <<machineVars, links, dest, parents, clonedBy, gitOutcome, pkgs,
                   installOpts, result, ret, started, rerun>>

Next ==
    \/ InstallStart
    \/ InstallAgain
    \/ Detect
    \/ DepsPhase
    \/ StowPhase
    \/ ExternalPhase
    \/ MachinePhase
    \/ InstallCmdFinish
    \/ ReconfigureCmd
    \/ CommandExits

Spec == Init /\ [][Next]_vars

(***************************************************************************)
(* Specification SpecLeftover: the same commands on a machine where        *)
(* earlier runs left some of the machine config files.                     *)
(***************************************************************************)
InitLeftover ==
    /\ pc = "idle"
    /\ calls = <<>>
    /\ manifest = FullManifest
    /\ external = FullExternal
    /\ StowIdle
    /\ platform = CHOOSE p \in Platforms : p.OS = Str("linux")
    /\ dest = [p \in ExtPaths |-> "absent"]
    /\ parents = {}
    /\ gitAvailable = TRUE
    /\ homeOK = TRUE
    /\ extOpts = [DryRun |-> FALSE, Update |-> FALSE]
    /\ extRes = EmptyExternalResult
    /\ extErr = NoError
    /\ clonedBy = {}
    /\ destBefore = dest
    /\ extStatus = <<>>
    /\ cmd = "none"
    /\ installOpts = NoOptions
    /\ result = EmptyInstallResult
    /\ ret = NotReturned
    /\ started = <<>>
    /\ pkgs = {}
    /\ mcfile \in SUBSET MachineIds(manifest.MachineConfig)
    /\ stfile = NoState
    /\ exitCode = 0
    /\ rerun = FALSE
    /\ gitOutcome = [p \in DestPaths(external) |-> "ok"]
    /\ NoPromptRun
    /\ NoMaintenance

SpecLeftover == InitLeftover /\ [][Next]_vars

(***************************************************************************)
(* Specification SpecMaint: one uninstall or one update command on an      *)
(* installed machine.  The state file, the links, the external             *)
(* destinations and the machine config files are whatever earlier          *)
(* commands (or the user) left; a destination declared by the manifest     *)
(* may lie inside the dotfiles repository.                                 *)
(***************************************************************************)
\* the state files state.Load may find
StateFiles ==
    {NoState} \cup
    {[exists |-> TRUE, Configs |-> names, External |-> {}, MachineConfig |-> {}] :
        names \in SUBSET {g.name : g \in Groups}}

InitMaint ==
    /\ pc = "idle"
    /\ calls = <<>>
    /\ manifest \in {FullManifest, EmptyManifest}
    /\ external = IF manifest = FullManifest THEN FullExternal ELSE <<>>
    /\ dirs \in [GroupPaths -> {"dir", "absent"}]
    /\ \A p \in GroupPaths : p \notin ConfigPaths(manifest.Core) => dirs[p] = "dir"
    /\ links \in {{}, ConfigPaths(GetAllConfigs(manifest))}
    /\ stowInput = <<>>
    /\ stowOp = "none"
    /\ stowRes = EmptyStowResult
    /\ platform = CHOOSE p \in Platforms : p.OS = Str("linux")
    /\ dest \in [ExtPaths -> {"absent", "git"}]
    /\ \A p \in ExtPaths : p \notin DestPaths(external) => dest[p] = "absent"
    /\ parents = {}
    /\ gitAvailable = TRUE
    /\ homeOK = TRUE
    /\ extOpts = [DryRun |-> FALSE, Update |-> FALSE]
    /\ extRes = EmptyExternalResult
    /\ extErr = NoError
    /\ clonedBy = {}
    /\ destBefore = dest
    /\ extStatus = <<>>
    /\ cmd = "none"
    /\ installOpts = NoOptions
    /\ result = EmptyInstallResult
    /\ ret = NotReturned
    /\ started = <<>>
    /\ pkgs = {}
    /\ mcfile \in {{}, MachineIds(manifest.MachineConfig)}
    /\ stfile \in StateFiles
    /\ exitCode = 0
    /\ rerun = FALSE
    /\ gitOutcome = [p \in DestPaths(external) |-> "ok"]
    /\ NoPromptRun
    /\ cmdOpts = [RemoveExternal |-> FALSE, RemoveMachine |-> FALSE]
    /\ inRepo \in SUBSET DestPaths(external)
    /\ removed = [external |-> {}, machine |-> {}, state |-> FALSE]
    /\ stLoaded = NoState
    /\ lastRun = NoRun

\* what no maintenance command changes
maintFrame == <<dirs, platform, gitAvailable, homeOK, extStatus, installOpts,
               result, ret, pkgs, rerun, gitOutcome, promptIn, promptOut, inRepo>>

\* what the environment decides while an uninstall runs
UninstallEnvs ==
    [exit : [ConfigPaths(GetAllConfigs(manifest)) -> {0, 1}],
     rmOK : [DestPaths(external) -> BOOLEAN],
     mcRmOK : BOOLEAN, deleteOK : BOOLEAN, home : {homeOK}]

\* uninstallCmd.Run: the state is loaded, the user confirms (or --force
\* is given), and the uninstall is carried out
UninstallRun ==
    /\ pc = "idle"
    /\ \E loadOK, confirmed \in BOOLEAN :
          IF ~loadOK \/ ~confirmed
          THEN /\ exitCode' = IF loadOK THEN 0 ELSE 1
               /\ started' = <<>>
               /\ stLoaded' = IF loadOK THEN stfile ELSE NoState
               /\ lastRun' = NoRun
               /\ UNCHANGED <<calls, links, dest, mcfile, stfile, removed, stowInput,
                              stowOp, stowRes, cmdOpts>>
          ELSE \E o \in UninstallOptions, env \in UninstallEnvs :
               \E out \in {Uninstall(manifest, external, stfile, o,
                                      [dirs |-> dirs, links |-> links, dest |-> dest,
                                       mcfile |-> mcfile], env)} :
               /\ exitCode' = 0
               /\ started' = <<"uninstall">>
               /\ stLoaded' = stfile
               /\ lastRun' = [kind |-> "uninstall", env |-> env, err |-> out.err]
               /\ cmdOpts' = o
               /\ calls' = out.calls
               /\ links' = out.links
               /\ dest' = out.dest
               /\ mcfile' = out.mcfile
               /\ stfile' = out.stfile
               /\ removed' = out.removed
               /\ stowInput' = out.configs
               /\ stowOp' = IF out.called THEN "unstow" ELSE "none"
               /\ stowRes' = out.res
    /\ destBefore' = dest
    /\ cmd' = "uninstall"
    /\ pc' = "exited"
    /\ UNCHANGED <<maintFrame, manifest, external, parents, clonedBy, extOpts, extRes,
                   extErr>>

\* what the environment decides while an update runs
UpdateEnvs ==
    LET smooth == [isRepo |-> TRUE, pullOK |-> TRUE, reload |-> "same", viaCmd |-> FALSE,
                   exit |-> [p \in ConfigPaths(GetAllConfigs(manifest)) |-> 0],
                   detectOK |-> TRUE, git |-> gitAvailable, home |-> homeOK,
                   outcome |-> [p \in DestPaths(external) |-> "ok"], saveOK |-> TRUE]
    IN  {[smooth EXCEPT !.isRepo = FALSE], [smooth EXCEPT !.pullOK = FALSE],
         [smooth EXCEPT !.reload = "fail", !.viaCmd = TRUE]}
        \cup
        {[smooth EXCEPT !.reload = r, !.exit = x, !.detectOK = d, !.outcome = oc,
                        !.saveOK = s] :
            r \in {"same", "changed", "fail", "missed"},
            x \in [ConfigPaths(GetAllConfigs(manifest)) -> {0, 1}],
            d \in BOOLEAN,
            oc \in [DestPaths(external) -> {"ok", "fail"}],
            s \in BOOLEAN}

\* setup.Update, and updateCmd.Run which differs from it only when the
\* manifest cannot be loaded again (env.viaCmd)
UpdateRun ==
    /\ pc = "idle"
    /\ \E o \in UpdateOptions, env \in UpdateEnvs :
       \E out \in {Update(manifest, external, stfile, o, platform,
                          [dirs |-> dirs, links |-> links, dest |-> dest,
                           parents |-> parents, cloned |-> clonedBy], env)} :
          /\ exitCode' = IF out.err = NoError THEN 0 ELSE 1
          /\ started' = IF out.err = NoError THEN <<"update">> ELSE <<>>
          /\ cmdOpts' = o
          /\ manifest' = out.manifest
          /\ external' = out.external
          /\ lastRun' = [kind |-> "update", env |-> env, err |-> out.err,
                          manifest |-> manifest, external |-> external]
          /\ calls' = out.calls
          /\ links' = out.links
          /\ stowInput' = out.configs
          /\ stowOp' = IF out.called THEN "restow" ELSE "none"
          /\ stowRes' = out.res
          /\ dest' = out.ext.dest
          /\ parents' = out.ext.parents
          /\ clonedBy' = out.ext.cloned
          /\ extRes' = out.ext.res
          /\ extErr' = out.ext.err
          /\ extOpts' = [DryRun |-> FALSE, Update |-> o.UpdateExternal]
    /\ stLoaded' = stfile
    /\ destBefore' = dest
    /\ cmd' = "update"
    /\ pc' = "exited"
    /\ UNCHANGED <<maintFrame, mcfile, stfile, removed>>

NextMaint == UninstallRun \/ UpdateRun

SpecMaint == InitMaint /\ [][NextMaint]_vars

(***************************************************************************)
(* Specification SpecCond: checkCondition on one asset.  The asset's       *)
(* condition is any map of at most MaxKeys keys, recognised or not, to     *)
(* values that match some platform, no platform, or are not a wsl value;   *)
(* the platform is any of Platforms; the range statement yields the keys   *)
(* in any order.                                                           *)
(***************************************************************************)
MaxKeys == 2

InitCond ==
    /\ pc = "idle"
    /\ calls = <<>>
    /\ StowIdle
    /\ platform \in Platforms
    /\ \E keys \in SUBSET {"platform", "os", "distro", "package_manager", "wsl", "arch",
                           "architecture", "shell"} :
          /\ Cardinality(keys) <= MaxKeys
          /\ \E c \in [keys -> {<<"linux", ",", " ", "darwin">>, Str("ubuntu"), Str("apt"),
                                 Str("amd64"), Str("true"), Str("false"), Str("yes"),
                                 <<"true", " ">>}] :
                external = <<[id |-> 1, destination |-> [tilde |-> TRUE, path |-> <<"dest", 1>>],
                              method |-> "", condition |-> c]>>
    /\ dest = [p \in ExtPaths |-> "absent"]
    /\ parents = {}
    /\ gitAvailable = TRUE
    /\ homeOK = TRUE
    /\ extOpts = [DryRun |-> FALSE, Update |-> FALSE]
    /\ extRes = EmptyExternalResult
    /\ extErr = NoError
    /\ clonedBy = {}
    /\ destBefore = dest
    /\ extStatus = <<>>
    /\ InstIdle
    /\ NoPromptRun
    /\ NoMaintenance

\* one call of checkCondition(ext.Condition, p), with one iteration order
CheckConditionRun ==
    /\ pc = "idle"
    /\ \E order \in DistinctSeqs(DOMAIN external[1].condition, MaxKeys) :
          /\ Range(order) = DOMAIN external[1].condition
          /\ lastRun' = [kind |-> "condition", order |-> order,
                         eligible |-> checkConditionOver(external[1].condition, order,
                                                         platform)]
    /\ pc' = "checked"
    /\ UNCHANGED <<calls, stowVars, extVars, instRest, promptIn, promptOut>>

SpecCond == InitCond /\ [][CheckConditionRun]_vars

(***************************************************************************)
(* Specification SpecSingle: the external subcommands on one machine:      *)
(* CloneExternal any number of times on all declared assets, then          *)
(* CloneSingle or RemoveExternal once on one id, each with its own options *)
(* and outcomes.                                                           *)
(***************************************************************************)
\* the parts of the state a single-asset call leaves alone
singleFrame == <<stowVars, platform, external, gitAvailable, homeOK, extRes, extStatus,
                 instRest, promptIn, promptOut>>

CloneSingleRun ==
    /\ pc \in {"idle", "done"}
    /\ \E id \in {e.id : e \in ExternalPool}, opts \in ExternalOptions, oc \in GitOutcomes :
          \E out \in {CloneSingle(external, platform, id, opts, homeOK,
                                  [q \in DestPaths(external) |-> oc],
                                  dest, parents, clonedBy)} :
              /\ lastRun' = [kind |-> "single", id |-> id]
              /\ extOpts' = opts
              /\ extErr' = out.err
              /\ calls' = out.calls
              /\ dest' = out.dest
              /\ parents' = out.parents
              /\ clonedBy' = out.cloned
    /\ destBefore' = dest
    /\ pc' = "single"
    /\ UNCHANGED singleFrame

RemoveExternalRun ==
    /\ pc \in {"idle", "done"}
    /\ \E id \in {e.id : e \in ExternalPool}, opts \in ExternalOptions, ok \in BOOLEAN :
          \E out \in {RemoveExternal(external, id, opts, homeOK,
                                     [q \in DestPaths(external) |-> ok], dest)} :
              /\ lastRun' = [kind |-> "remove", id |-> id]
              /\ extOpts' = opts
              /\ extErr' = out.err
              /\ calls' = <<>>
              /\ dest' = out.dest
              /\ clonedBy' = clonedBy \ out.removed
    /\ destBefore' = dest
    /\ pc' = "removed"
    /\ UNCHANGED <<singleFrame, parents>>

NextSingle == CloneExternalRun \/ CloneSingleRun \/ RemoveExternalRun

SpecSingle == InitExt /\ [][NextSingle]_vars

(***************************************************************************)
(* Properties of CloneExternal (checked under SpecExt).                    *)
(***************************************************************************)
ExtReturned == pc = "done"

DepIds(deps) == {deps[i].id : i \in DOMAIN deps}
EntryIds(entries) == {entries[i].Dep.id : i \in DOMAIN entries}

\* the git invocations of the last run that touched the destination path
GitCallsOn(path) ==
    {k \in DOMAIN calls : calls[k].tool = "git" /\ calls[k].pkg \in {path, <<"tmp", path>>}}

\* the asset's destination was there when the run began, put there by a
\* clone (or clone-then-copy) of an earlier run
ClonedEarlier(ext) ==
    /\ ext.destination.path \in clonedBy
    /\ destBefore[ext.destination.path] \in {"git", "dir"}

\* C7: a CloneExternal run with Update=false leaves an asset that an
\* earlier run cloned alone: no git clone or pull for it, its destination
\* unchanged, and the asset in Skipped with reason "already exists" and in
\* none of Cloned, Updated, Failed.
C7_RerunWithoutUpdateIsNoOp ==
    (ExtReturned /\ ~extOpts.Update) =>
        \A i \in DOMAIN external :
            ClonedEarlier(external[i]) =>
                /\ extErr = NoError
                /\ \E k \in DOMAIN extRes.Skipped :
                      /\ extRes.Skipped[k].Dep = external[i]
                      /\ extRes.Skipped[k].Reason = "already exists"
                /\ external[i].id \notin DepIds(extRes.Cloned)
                /\ external[i].id \notin DepIds(extRes.Updated)
                /\ external[i].id \notin EntryIds(extRes.Failed)
                /\ GitCallsOn(external[i].destination.path) = {}
                /\ dest[external[i].destination.path] = destBefore[external[i].destination.path]

C7_Witness ==
    /\ ExtReturned /\ ~extOpts.Update /\ ~extOpts.DryRun
    /\ \E i, j \in DOMAIN external :
          /\ ClonedEarlier(external[i])
          /\ destBefore[external[i].destination.path] = "dir"
          /\ external[i].id \in EntryIds(extRes.Skipped)
          /\ ClonedEarlier(external[j])
          /\ destBefore[external[j].destination.path] = "git"

(***************************************************************************)
(* Properties of the batch operations (checked under SpecStow).            *)
(***************************************************************************)
BatchReturned == pc = "done" /\ stowOp \in {"stow", "unstow", "restow"}

FailedNames == {e.ConfigName : e \in Range(stowRes.Failed)}

\* the positions of calls at which the tool was run on the package pkg
CallsOf(pkg) == {k \in DOMAIN calls : calls[k].tool = "stow" /\ calls[k].pkg = pkg}

MissingHandledAsSkipped(cfg) ==
    /\ cfg.name \in Range(stowRes.Skipped)
    /\ cfg.name \notin Range(stowRes.Success)
    /\ cfg.name \notin FailedNames
    /\ CallsOf(cfg.path) = {}

\* C8: StowConfigs records a group whose source directory does not exist
\* in Skipped, never in Failed or Success, and never runs the tool for it.
C8_StowMissingDirSkipped ==
    (BatchReturned /\ stowOp = "stow") =>
        \A i \in DOMAIN stowInput :
            dirs[stowInput[i].path] = "absent" => MissingHandledAsSkipped(stowInput[i])

C8_Witness ==
    /\ BatchReturned /\ stowOp = "stow"
    /\ \E i, j \in DOMAIN stowInput :
          /\ dirs[stowInput[i].path] = "absent"
          /\ stowInput[i].name \in Range(stowRes.Skipped)
          /\ CallsOf(stowInput[j].path) # {}

\* C9: in StowConfigs, UnstowConfigs and RestowConfigs a non-zero exit of
\* the tool for a group is recorded as exactly one StowError with that
\* group's name and the tool's error, and every later group of the input
\* is still processed (run, or skipped for a missing directory), the tool
\* being run in input order.
FailureRecordedOnce(i) ==
    \A k \in CallsOf(stowInput[i].path) :
        calls[k].exit # 0 =>
            /\ Cardinality(Positions(stowRes.Failed,
                    LAMBDA e : e.ConfigName = stowInput[i].name)) = 1
            /\ \A e \in Range(stowRes.Failed) :
                    e.ConfigName = stowInput[i].name => e.Error.exit = calls[k].exit

LaterGroupsProcessed(i) ==
    \A k \in CallsOf(stowInput[i].path) :
        calls[k].exit # 0 =>
            \A j \in DOMAIN stowInput :
                j > i => \/ \E m \in CallsOf(stowInput[j].path) : m > k
                         \/ stowInput[j].name \in Range(stowRes.Skipped)

CallsInInputOrder ==
    \A i, j \in DOMAIN stowInput :
        i < j => \A k \in CallsOf(stowInput[i].path), m \in CallsOf(stowInput[j].path) : k < m

C9_FailureDoesNotHaltBatch ==
    BatchReturned =>
        /\ \A i \in DOMAIN stowInput : FailureRecordedOnce(i) /\ LaterGroupsProcessed(i)
        /\ CallsInInputOrder
        /\ Len(stowRes.Failed) = Cardinality({k \in DOMAIN calls : calls[k].exit # 0})

C9_Witness ==
    /\ BatchReturned /\ stowOp = "unstow"
    /\ Len(stowInput) = 3
    /\ Len(calls) = 3
    /\ calls[1].exit = 2 /\ calls[2].exit = 0 /\ calls[3].exit = 1
    /\ Len(stowRes.Failed) = 2 /\ Len(stowRes.Success) = 1

\* C10 (as claimed): every batch operation, UnstowConfigs and
\* RestowConfigs included, records a group whose source directory is
\* missing in Skipped and does not run the tool for it.
C10_EveryBatchSkipsMissingDir ==
    BatchReturned =>
        \A i \in DOMAIN stowInput :
            dirs[stowInput[i].path] = "absent" =>
                /\ stowInput[i].name \in Range(stowRes.Skipped)
                /\ CallsOf(stowInput[i].path) = {}

(***************************************************************************)
(* Properties of the install pipeline and the commands (checked under      *)
(* Spec).                                                                  *)
(***************************************************************************)
InstallRan == cmd = "install" /\ pc \notin {"idle", "detect"}
InstallReturned == cmd = "install" /\ pc \in {"returned", "exited"}
Detected == result.Platform # NoPlatform

\* the flag the options carry for a phase
SkipFlag(phase) ==
    CASE phase = "deps" -> installOpts.SkipDeps
      [] phase = "stow" -> installOpts.SkipStow
      [] phase = "external" -> installOpts.SkipExternal
      [] phase = "machine" -> installOpts.SkipMachine

\* the phases Install has left behind when it stands at position at
PhasesBefore(at) ==
    CASE at = "deps" -> <<>>
      [] at = "stow" -> <<"deps">>
      [] at = "external" -> <<"deps", "stow">>
      [] at = "machine" -> <<"deps", "stow", "external">>
      [] OTHER -> <<"deps", "stow", "external", "machine">>

\* the phase whose work a tool invocation belongs to
PhaseOfTool(tool) ==
    CASE tool = "pkg" -> 1
      [] tool = "stow" -> 2
      [] tool = "git" -> 3
      [] tool \in {"prompt", "render"} -> 4
      [] OTHER -> 5

ToolsOfPhase(phase) ==
    CASE phase = "deps" -> {"pkg"}
      [] phase = "stow" -> {"stow"}
      [] phase = "external" -> {"git"}
      [] phase = "machine" -> {"prompt", "render"}

CallsOfTools(tools) == {k \in DOMAIN calls : calls[k].tool \in tools}

\* the generic errors a phase appends to result.Errors
ErrorsOfPhase(phase) ==
    CASE phase = "deps" -> {"failed to check dependencies", "failed to install dependencies"}
      [] phase = "stow" -> {}
      [] phase = "external" -> {"failed to clone external dependencies"}
      [] phase = "machine" ->
            {"failed to collect git", "failed to collect signing",
             "failed to write git", "failed to write signing"}

\* the result lists a phase fills are all empty
ListsOfPhaseEmpty(phase) ==
    /\ \A e \in Range(result.Errors) : e.msg \notin ErrorsOfPhase(phase)
    /\ CASE phase = "deps" -> result.DepsInstalled = <<>> /\ result.DepsFailed = <<>>
         [] phase = "stow" -> result.ConfigsStowed = <<>> /\ result.ConfigsFailed = <<>>
         [] phase = "external" -> result.ExternalCloned = <<>> /\ result.ExternalFailed = <<>>
         [] phase = "machine" -> result.MachineConfigs = <<>>

\* C1: once detection has succeeded, the phases Dependencies, Stow,
\* External Assets and Machine Config start in that order, each after the
\* previous one has returned, and whatever errors or per-item failures
\* the earlier phases recorded, every later phase that is not skipped is
\* attempted: the phases entered so far are exactly the non-skipped ones
\* among those Install has passed, and the tool invocations of the run
\* are grouped by phase in the same order.
C1_PhasesInOrderNeverBlocked ==
    (InstallRan /\ Detected) =>
        /\ started = SelectSeq(PhasesBefore(pc), LAMBDA ph : ~SkipFlag(ph))
        /\ \A j, k \in DOMAIN calls :
              j < k => PhaseOfTool(calls[j].tool) <= PhaseOfTool(calls[k].tool)

\* a run that returned although the dependency phase returned an error,
\* a group failed to stow and an asset failed to clone, and that went
\* through all four phases
C1_Witness ==
    /\ InstallReturned /\ Detected
    /\ started = PhaseOrder
    /\ \E e \in Range(result.Errors) : e.msg \in ErrorsOfPhase("deps")
    /\ result.ConfigsFailed # <<>>
    /\ result.ExternalFailed # <<>>
    /\ CallsOfTools({"prompt", "render"}) # {}

\* C2: a phase whose skip option is set performs no operation (no call
\* of a tool of that phase), is never entered and leaves its result
\* lists empty; a phase whose option is not set is entered at most once,
\* and exactly once by the time Install returns.
C2_SkipMeansNoOperation ==
    (InstallRan /\ Detected) =>
        \A phase \in Range(PhaseOrder) :
            /\ SkipFlag(phase) =>
                  /\ phase \notin Range(started)
                  /\ CallsOfTools(ToolsOfPhase(phase)) = {}
                  /\ ListsOfPhaseEmpty(phase)
            /\ ~SkipFlag(phase) =>
                  /\ Cardinality({k \in DOMAIN started : started[k] = phase}) <= 1
                  /\ InstallReturned =>
                        Cardinality({k \in DOMAIN started : started[k] = phase}) = 1

\* a returned run on the full manifest that skipped dependencies and
\* external assets and ran the two other phases, which called their tools
C2_Witness ==
    /\ InstallReturned /\ Detected
    /\ manifest = FullManifest
    /\ installOpts.SkipDeps /\ installOpts.SkipExternal
    /\ ~installOpts.SkipStow /\ ~installOpts.SkipMachine
    /\ started = <<"stow", "machine">>
    /\ CallsOfTools({"stow"}) # {}
    /\ CallsOfTools({"render"}) # {}

\* C3: when platform detection fails, Install returns an error and a nil
\* result, and no phase is attempted (none entered, no tool called); and
\* Install returns an error only then: a run whose detection succeeded
\* returns a result and no error, whatever its phases recorded.
C3_DetectionFailureIsTheOnlyFatalOne ==
    InstallRan =>
        /\ ~Detected =>
              /\ pc \in {"returned", "exited"}
              /\ ret.returned /\ ret.nil /\ ret.err # NoError
              /\ started = <<>>
              /\ calls = <<>>
        /\ (ret.returned /\ ret.err # NoError) => ~Detected
        /\ (ret.returned /\ Detected) => ~ret.nil /\ ret.err = NoError

\* Install returned the detection error on the full manifest with no
\* phase skipped
C3_Witness ==
    /\ InstallReturned
    /\ manifest = FullManifest
    /\ \A phase \in Range(PhaseOrder) : ~SkipFlag(phase)
    /\ ret.returned /\ ret.nil /\ ret.err.msg = "failed to detect platform"

\* C4: HasErrors() is true exactly when DepsFailed, ConfigsFailed,
\* ExternalFailed or Errors is non-empty; what was installed, stowed,
\* cloned, configured or skipped has no part in it.
C4_HasErrorsIffSomeFailureList ==
    InstallRan =>
        (HasErrors(result) <=>
            (\/ result.DepsFailed # <<>>
             \/ result.ConfigsFailed # <<>>
             \/ result.ExternalFailed # <<>>
             \/ result.Errors # <<>>))

\* a returned run whose only failure is a generic error, next to groups
\* that were stowed
C4_Witness ==
    /\ InstallReturned /\ Detected
    /\ result.Errors # <<>>
    /\ result.DepsFailed = <<>> /\ result.ConfigsFailed = <<>> /\ result.ExternalFailed = <<>>
    /\ result.ConfigsStowed # <<>>
    /\ HasErrors(result)

StateCalls == CallsOfTools({"state"})

NoFailureRecorded ==
    /\ result.DepsFailed = <<>>
    /\ result.ConfigsFailed = <<>>
    /\ result.ExternalFailed = <<>>
    /\ result.Errors = <<>>

\* what is in fact in place on the machine
StowedGroups == {g.name : g \in {h \in Groups : h.path \in links}}
ClonedAssets == {e.id : e \in {x \in ExternalPool : x.destination.path \in clonedBy}}

\* C5: the persisted state records only what succeeded.  The install
\* command writes the state at most once, as its last step, after Install
\* returned a result having gone through every non-skipped phase, and
\* only when no failure list holds anything; reconfigure calls
\* SetMachineConfig for a machine config only after the write of that
\* config succeeded; and the state file never lists a group that is not
\* stowed, an asset that was not cloned or a machine config that was not
\* written.
C5_StateRecordsOnlySuccess ==
    /\ (cmd = "install" /\ pc # "idle") =>
          /\ Cardinality(StateCalls) <= 1
          /\ \A k \in StateCalls :
                /\ pc = "exited" /\ k = Len(calls)
                /\ ret.returned /\ ~ret.nil /\ ret.err = NoError
                /\ started = SelectSeq(PhaseOrder, LAMBDA ph : ~SkipFlag(ph))
                /\ NoFailureRecorded
    /\ (cmd = "reconfigure" /\ pc = "exited") =>
          \A k \in StateCalls :
              calls[k].mode = "SetMachineConfig" =>
                  \E j \in 1..(k - 1) :
                      calls[j].tool = "render" /\ calls[j].pkg = calls[k].pkg
                                               /\ calls[j].exit = 0
    /\ stfile.Configs \subseteq StowedGroups
    /\ stfile.External \subseteq ClonedAssets
    /\ stfile.MachineConfig \subseteq mcfile

\* reconfigure recorded a machine config in a state that an earlier,
\* successful install run had saved
C5_Witness ==
    /\ cmd = "reconfigure" /\ pc = "exited"
    /\ \E k \in StateCalls : calls[k].mode = "SetMachineConfig"
    /\ stfile.exists
    /\ stfile.Configs # {}
    /\ stfile.MachineConfig # {}

\* C6: an Install run that repeats, with the same manifest and options
\* and nothing else having touched the machine, a run that has just
\* succeeded, invokes the symlink tool not once.
C6_SecondRunInvokesNoStow ==
    (cmd = "install" /\ rerun /\ pc # "idle") => CallsOfTools({"stow"}) = {}

(***************************************************************************)
(* Properties of the result lists (checked under SpecBatch).               *)
(***************************************************************************)
CountIn(seq, x) == Cardinality({k \in DOMAIN seq : seq[k] = x})

\* in how many places of the stow result the group name stands
StowPlaces(name) ==
    CountIn(stowRes.Success, name) + CountIn(stowRes.Skipped, name)
    + Cardinality({k \in DOMAIN stowRes.Failed : stowRes.Failed[k].ConfigName = name})

\* in how many places of the external result the asset stands
ExtPlaces(ext) ==
    CountIn(extRes.Cloned, ext) + CountIn(extRes.Updated, ext)
    + Cardinality({k \in DOMAIN extRes.Failed : extRes.Failed[k].Dep = ext})
    + Cardinality({k \in DOMAIN extRes.Skipped : extRes.Skipped[k].Dep = ext})

\* C11: the result lists partition the input.  After StowConfigs or
\* RestowConfigs every input group stands in exactly one place of
\* Success, Failed and Skipped, and the lists hold nothing else; after a
\* CloneExternal that returned a result every declared asset stands in
\* exactly one place of Cloned, Updated, Failed and Skipped.
C11_ResultListsPartitionInput ==
    /\ (BatchReturned /\ stowOp \in {"stow", "restow"}) =>
          /\ \A i \in DOMAIN stowInput : StowPlaces(stowInput[i].name) = 1
          /\ Len(stowRes.Success) + Len(stowRes.Failed) + Len(stowRes.Skipped)
                = Len(stowInput)
    /\ (pc = "done" /\ extErr = NoError) =>
          /\ \A i \in DOMAIN external : ExtPlaces(external[i]) = 1
          /\ Len(extRes.Cloned) + Len(extRes.Updated) + Len(extRes.Failed)
                + Len(extRes.Skipped) = Len(external)

\* a restow of three groups of which one was missing, one failed and one
\* succeeded
C11_Witness ==
    /\ BatchReturned /\ stowOp = "restow"
    /\ Len(stowInput) = 3
    /\ Len(stowRes.Success) = 1 /\ Len(stowRes.Failed) = 1 /\ Len(stowRes.Skipped) = 1

(***************************************************************************)
(* Properties of the External phase of a first Install run (Spec).         *)
(***************************************************************************)
\* the External phase of the first run has called deps.CloneExternal and
\* got a result
ExternalPhaseRan ==
    /\ cmd = "install" /\ ~rerun
    /\ \E k \in DOMAIN started : started[k] = "external"
    /\ gitAvailable /\ external # <<>>

DestOf(ext) == expandPath(ext.destination, homeOK).path

\* eligible on the platform and not there when the run began
EligibleAndAbsent(ext) ==
    /\ checkCondition(ext.condition, platform)
    /\ expandPath(ext.destination, homeOK).err = NoError
    /\ destBefore[DestOf(ext)] = "absent"

\* the asset's clone (or clone-then-copy) returns an error under the
\* outcome the git operation had in the External phase
FailedToClone(ext) ==
    cloneByMethod(ext, DestOf(ext), gitOutcome[DestOf(ext)]).err # NoError

\* the assets of the sequence other than the k-th, in their order
AllBut(seq, k) == SubSeq(seq, 1, k - 1) \o SubSeq(seq, k + 1, Len(seq))

\* C12: of N eligible external assets that were not there, exactly asset
\* k fails to clone: the result's Failed list has exactly one entry, for k,
\* its Cloned list holds the other N-1 assets, HasErrors of the Install
\* result is true, and the assets after k had their clone run.
C12_OneCloneFailureIsIsolated ==
    (/\ ExternalPhaseRan
     /\ \A i \in DOMAIN external : EligibleAndAbsent(external[i])) =>
        \A k \in DOMAIN external :
            (/\ FailedToClone(external[k])
             /\ \A i \in DOMAIN external \ {k} : ~FailedToClone(external[i])) =>
                /\ Len(result.ExternalFailed) = 1
                /\ result.ExternalFailed[1].Dep = external[k]
                /\ result.ExternalCloned = AllBut(external, k)
                /\ HasErrors(result)
                /\ \A i \in DOMAIN external :
                      i > k => GitCallsOn(DestOf(external[i])) # {}

\* the first of two assets failed to clone and the second was cloned
C12_Witness ==
    /\ ExternalPhaseRan
    /\ Len(external) = 2
    /\ \A i \in DOMAIN external : EligibleAndAbsent(external[i])
    /\ FailedToClone(external[1]) /\ ~FailedToClone(external[2])
    /\ Len(result.ExternalFailed) = 1
    /\ result.ExternalCloned = <<external[2]>>

(***************************************************************************)
(* Properties of condition evaluation (checked under SpecExt).             *)
(***************************************************************************)
\* the declared assets whose condition is {os: "linux,darwin"}
LinuxOrDarwinAssets ==
    {i \in DOMAIN external :
        /\ DOMAIN external[i].condition = {"os"}
        /\ external[i].condition["os"] = <<"linux", ",", "darwin">>}

UnconditionalAssets == {i \in DOMAIN external : DOMAIN external[i].condition = {}}

\* the last CloneExternal returned a result
CloneReported == pc = "done" /\ extErr = NoError

\* both operations, where they have reported, give the asset as skipped
\* because its condition is not met
ReportedConditionNotMet(i) ==
    /\ CloneReported =>
          \E k \in DOMAIN extRes.Skipped :
              /\ extRes.Skipped[k].Dep = external[i]
              /\ extRes.Skipped[k].Reason = "condition not met"
    /\ extStatus # <<>> =>
          /\ extStatus[i].Dep = external[i]
          /\ extStatus[i].Status = "skipped"
          /\ extStatus[i].Reason = "condition not met"

\* neither operation gives the asset as skipped for its condition
ReportedEligible(i) ==
    /\ CloneReported =>
          \A k \in DOMAIN extRes.Skipped :
              extRes.Skipped[k].Dep = external[i] =>
                  extRes.Skipped[k].Reason # "condition not met"
    /\ extStatus # <<>> =>
          /\ extStatus[i].Dep = external[i]
          /\ extStatus[i].Status # "skipped"
          /\ extStatus[i].Reason # "condition not met"

\* C13: an asset with condition {os: "linux,darwin"} is reported by
\* CloneExternal and CheckExternalStatus as skipped with reason "condition
\* not met" on a platform whose OS is "windows" and is eligible on one
\* whose OS is "linux" or "darwin"; an asset with an empty condition is
\* eligible on every platform.
C13_CommaSeparatedAlternatives ==
    /\ \A i \in LinuxOrDarwinAssets :
          /\ platform.OS = Str("windows") => ReportedConditionNotMet(i)
          /\ platform.OS \in {Str("linux"), Str("darwin")} => ReportedEligible(i)
    /\ \A i \in UnconditionalAssets : ReportedEligible(i)

\* on darwin, the second alternative, both operations have reported an
\* asset with the condition as eligible: cloned, and then installed
C13_Witness ==
    /\ platform.OS = Str("darwin")
    /\ CloneReported /\ extStatus # <<>>
    /\ \E i \in LinuxOrDarwinAssets :
          /\ \E k \in DOMAIN extRes.Cloned : extRes.Cloned[k] = external[i]
          /\ extStatus[i].Status = "installed"

(***************************************************************************)
(* Properties of collectSinglePrompt (checked under SpecPrompt).           *)
(***************************************************************************)
PromptReturned == pc = "done"

\* the error is the one that names this field and no other
ErrorNamesField(err, id) ==
    /\ err = RequiredNoDefault(id)
    /\ \A other \in {"user_name", "enable", "key"} \ {id} : err # RequiredNoDefault(other)

\* C14: with SkipPrompts set, a required field without default fails with
\* an error that names the field and nothing is read from the input; a
\* field with a default succeeds with exactly that default.
C14_SkipPromptsUsesDefaultOrFails ==
    (PromptReturned /\ promptIn.skip) =>
        /\ (promptIn.field.Required /\ promptIn.field.Default = <<>>) =>
              /\ promptOut.err # NoError
              /\ ErrorNamesField(promptOut.err, promptIn.field.ID)
              /\ promptOut.asked = 0
              /\ promptOut.rest = promptIn.reader
        /\ promptIn.field.Default # <<>> =>
              /\ promptOut.err = NoError
              /\ promptOut.value = promptIn.field.Default
              /\ promptOut.asked = 0

\* a required field without default was collected with SkipPrompts while
\* the terminal had lines to give
C14_Witness ==
    /\ PromptReturned /\ promptIn.skip
    /\ promptIn.field.Required /\ promptIn.field.Default = <<>>
    /\ promptIn.reader # <<>>
    /\ promptOut.err # NoError
    /\ promptOut.rest = promptIn.reader

\* a confirm field was read interactively and the first line came in
ConfirmLineRead ==
    /\ PromptReturned /\ ~promptIn.skip
    /\ promptIn.field.Type = "confirm"
    /\ promptIn.reader # <<>>
    /\ Head(promptIn.reader) # ReadError

\* the first line, trimmed and in lower case
FirstAnswer == TrimSpace(ToLower(Head(promptIn.reader)))

YesAnswers == {Str("y"), Str("yes"), Str("true"), Str("1")}
NoAnswers == {Str("n"), Str("no"), Str("false"), Str("0"), <<>>}

\* C15 (as the code has it): for a confirm field read interactively, a
\* line of y, yes, true or 1 (case-insensitive, trimmed) yields "true"; a
\* line of n, no, false, 0 or the empty line yields "false"; any other
\* line yields nothing: it is consumed and the field is asked again.
C15_ConfirmYesNoOrAskAgain ==
    ConfirmLineRead =>
        /\ FirstAnswer \in YesAnswers =>
              /\ promptOut.err = NoError
              /\ promptOut.value = Str("true")
              /\ promptOut.asked = 1
              /\ promptOut.rest = Tail(promptIn.reader)
        /\ FirstAnswer \in NoAnswers =>
              /\ promptOut.err = NoError
              /\ promptOut.value = Str("false")
              /\ promptOut.asked = 1
              /\ promptOut.rest = Tail(promptIn.reader)
        /\ FirstAnswer \notin (YesAnswers \cup NoAnswers) =>
              /\ promptOut.asked >= 2
              /\ Len(promptOut.rest) < Len(Tail(promptIn.reader))
                    \/ Tail(promptIn.reader) = <<>>

\* the line "1" was taken for a yes
C15_Witness ==
    /\ ConfirmLineRead
    /\ Head(promptIn.reader) = Str("1")
    /\ promptOut.value = Str("true")

\* C15 as stated: y, yes, true or 1 yields "true" and every other line,
\* the empty line included, yields "false"
C15_EveryOtherLineYieldsFalse ==
    ConfirmLineRead =>
        /\ promptOut.err = NoError
        /\ promptOut.value = IF FirstAnswer \in YesAnswers THEN Str("true") ELSE Str("false")

(***************************************************************************)
(* Properties of the Stow phase of Install (Spec).                         *)
(***************************************************************************)
\* the Stow phase of this run has been through stow.StowConfigs
StowPhaseRan == cmd = "install" /\ \E k \in DOMAIN started : started[k] = "stow"

ConfigNames(configs) == {configs[i].name : i \in DOMAIN configs}

\* the groups this run handed to the symlink tool, by path
PathsGivenToStow == {calls[k].pkg : k \in CallsOfTools({"stow"})}

\* the groups this run reports as stowed or as failed
GroupsReported ==
    Range(result.ConfigsStowed) \cup {f.ConfigName : f \in Range(result.ConfigsFailed)}

\* the group was looked at: handed to the tool, or found missing
Considered(item) ==
    IF dirs[item.path] = "dir"
    THEN item.path \in PathsGivenToStow /\ item.name \in GroupsReported
    ELSE item.path \notin PathsGivenToStow /\ item.name \notin GroupsReported

\* C16: with Minimal set the Stow phase of Install considers the core
\* groups only: no optional or archived group is handed to the symlink
\* tool or stands in ConfigsStowed or ConfigsFailed; without Minimal every
\* config GetAllConfigs returns is considered.
C16_MinimalStowsCoreOnly ==
    StowPhaseRan =>
        IF installOpts.Minimal
        THEN /\ PathsGivenToStow \subseteq ConfigPaths(manifest.Core)
             /\ GroupsReported \subseteq ConfigNames(manifest.Core)
             /\ \A i \in DOMAIN manifest.Core : Considered(manifest.Core[i])
        ELSE /\ \A i \in DOMAIN GetAllConfigs(manifest) :
                   Considered(GetAllConfigs(manifest)[i])
             /\ PathsGivenToStow \subseteq ConfigPaths(GetAllConfigs(manifest))

\* a Minimal run stowed the core group and left alone an optional group
\* whose directory is there
C16_Witness ==
    /\ StowPhaseRan /\ installOpts.Minimal
    /\ manifest.Optional # <<>>
    /\ dirs[manifest.Optional[1].path] = "dir"
    /\ manifest.Optional[1].path \notin PathsGivenToStow
    /\ manifest.Core # <<>>
    /\ manifest.Core[1].name \in Range(result.ConfigsStowed)

(***************************************************************************)
(* Properties of the Machine Config phase of a first Install run (Spec).   *)
(* No machine config file exists before the first run, so every declared   *)
(* config needs configuring.                                               *)
(***************************************************************************)
MachinePhaseRan ==
    /\ cmd = "install" /\ ~rerun
    /\ \E k \in DOMAIN started : started[k] = "machine"

\* the ways the phase can have dealt with one config
CollectFailed(mc) ==
    /\ CollectError(mc.ID) \in Range(result.Errors)
    /\ WriteError(mc.ID) \notin Range(result.Errors)
    /\ RenderResult(mc) \notin Range(result.MachineConfigs)
    /\ \A k \in CallsOfTools({"render"}) : calls[k].pkg # mc.ID
    /\ mc.ID \notin mcfile

WriteFailed(mc) ==
    /\ WriteError(mc.ID) \in Range(result.Errors)
    /\ CollectError(mc.ID) \notin Range(result.Errors)
    /\ RenderResult(mc) \notin Range(result.MachineConfigs)
    /\ \E k \in CallsOfTools({"render"}) : calls[k].pkg = mc.ID /\ calls[k].exit # 0
    /\ mc.ID \notin mcfile

Written(mc) ==
    /\ RenderResult(mc) \in Range(result.MachineConfigs)
    /\ CollectError(mc.ID) \notin Range(result.Errors)
    /\ WriteError(mc.ID) \notin Range(result.Errors)
    /\ \E k \in CallsOfTools({"render"}) : calls[k].pkg = mc.ID /\ calls[k].exit = 0
    /\ mc.ID \in mcfile

\* C17: in the Machine Config phase a failure to collect or to write one
\* config is appended to result.Errors and the phase goes on: every config
\* that needs configuring has been dealt with, whatever became of the
\* others, and result.MachineConfigs holds exactly the configs whose
\* write succeeded; the phase returns no error of its own.
C17_MachineFailureDoesNotAbortPhase ==
    MachinePhaseRan =>
        /\ \A i \in DOMAIN manifest.MachineConfig :
              LET mc == manifest.MachineConfig[i]
              IN  CollectFailed(mc) \/ WriteFailed(mc) \/ Written(mc)
        /\ Len(result.MachineConfigs) =
              Cardinality({i \in DOMAIN manifest.MachineConfig :
                              Written(manifest.MachineConfig[i])})
        /\ pc \in {"returned", "exited"}
        /\ ret.nil = FALSE /\ ret.err = NoError

\* the first config could not be collected, and the second was collected
\* and written
C17_Witness ==
    /\ MachinePhaseRan
    /\ Len(manifest.MachineConfig) = 2
    /\ CollectFailed(manifest.MachineConfig[1])
    /\ Written(manifest.MachineConfig[2])

(***************************************************************************)
(* Properties of uninstall and update (checked under SpecMaint).           *)
(***************************************************************************)
UninstallRan == cmd = "uninstall" /\ started = <<"uninstall">>
UpdateRan == cmd = "update" /\ started = <<"update">>

\* the group directories the symlink tool was run on in the given mode
PathsRunIn(mode) ==
    {calls[k].pkg : k \in {j \in CallsOfTools({"stow"}) : calls[j].mode = mode}}

\* the state the command loaded lists at least one config
StateListsConfigs == stLoaded.exists /\ stLoaded.Configs # {}

\* the groups the state lists that the manifest (still) declares
ListedAndDeclared ==
    {c \in Range(GetAllConfigs(manifest)) : c.name \in stLoaded.Configs}

\* C18: Uninstall unstows exactly the previously installed groups: the
\* state entries the manifest still declares and no other group when the
\* loaded state lists a config, and every config the manifest declares
\* when there is no state or it lists none.
C18_UninstallUnstowsInstalledGroups ==
    UninstallRan =>
        /\ StateListsConfigs =>
              /\ Range(stowInput) = ListedAndDeclared
              /\ PathsRunIn("unstow") = {c.path : c \in ListedAndDeclared}
        /\ ~StateListsConfigs =>
              /\ Range(stowInput) = Range(GetAllConfigs(manifest))
              /\ PathsRunIn("unstow") = ConfigPaths(GetAllConfigs(manifest))

\* the state listed the core group and a group the manifest does not
\* declare as a config: the core group alone was unstowed, the optional
\* group not
C18_Witness ==
    /\ UninstallRan
    /\ stLoaded.exists
    /\ stLoaded.Configs = {ConfigItem(1).name, ConfigItem(3).name}
    /\ manifest.Optional # <<>>
    /\ PathsRunIn("unstow") = {ConfigItem(1).path}

\* C19 as stated: Uninstall, whatever its options and the manifest,
\* deletes nothing inside the dotfiles repository: the group directories
\* stay and nothing it removes lies in the repository; with RemoveExternal
\* unset no external destination is removed and with RemoveMachine unset
\* no machine config file is removed.
C19_UninstallLeavesRepositoryAlone ==
    UninstallRan =>
        /\ removed.external \cap inRepo = {}
        /\ \A p \in inRepo : dest[p] = destBefore[p]
        /\ ~cmdOpts.RemoveExternal => (removed.external = {} /\ dest = destBefore)
        /\ ~cmdOpts.RemoveMachine => removed.machine = {}

\* the config items handed to RestowConfigs
Restowed == IF stowOp = "restow" THEN Range(stowInput) ELSE {}

\* C20: Update restows the previously installed groups: exactly the state
\* entries that the manifest, as it is after a reload, still declares when
\* the state lists a config; the core groups and no optional group when
\* there is no state; nothing with SkipRestow.
C20_UpdateRestowsInstalledGroups ==
    UpdateRan =>
        /\ PathsRunIn("restow") \subseteq {c.path : c \in Restowed}
        /\ cmdOpts.SkipRestow => (Restowed = {} /\ PathsRunIn("restow") = {})
        /\ (~cmdOpts.SkipRestow /\ StateListsConfigs) => Restowed = ListedAndDeclared
        /\ (~cmdOpts.SkipRestow /\ ~StateListsConfigs) =>
              /\ Restowed = Range(manifest.Core)
              /\ Restowed \cap Range(manifest.Optional) = {}

\* without a state file, on a manifest with an optional group, the core
\* group alone was restowed
C20_Witness ==
    /\ UpdateRan /\ ~cmdOpts.SkipRestow
    /\ ~stLoaded.exists
    /\ manifest.Optional # <<>>
    /\ dirs[manifest.Optional[1].path] = "dir"
    /\ Restowed = Range(manifest.Core)
    /\ PathsRunIn("restow") = ConfigPaths(manifest.Core)

(***************************************************************************)
(* Properties of Update's manifest reload (checked under SpecMaint).       *)
(***************************************************************************)
\* an update command has run, to its end or to an error
UpdateDone == cmd = "update" /\ lastRun.kind = "update"

\* the manifest file differs between the HEAD before and after the pull
ManifestFileChanged == lastRun.env.reload \in {"changed", "fail", "missed"}

LoadCalls == CallsOfTools({"config"})
RestowCalls == {k \in CallsOfTools({"stow"}) : calls[k].mode = "restow"}
ExternalGitCalls == {k \in CallsOfTools({"git"}) : calls[k].pkg # <<"repo">>}

\* the manifest was loaded again, and before any restow or asset update
LoadedBeforeUse(code) ==
    /\ \E k \in LoadCalls : calls[k].exit = code
    /\ \A k \in LoadCalls : \A j \in RestowCalls \cup ExternalGitCalls : k < j

\* the assets the external step reported on
AssetsReported ==
    DepIds(extRes.Cloned) \cup DepIds(extRes.Updated) \cup EntryIds(extRes.Failed)
        \cup EntryIds(extRes.Skipped)

\* restow and external update worked on the manifest m with assets exts
StepsUse(m, exts) ==
    /\ manifest = m /\ external = exts
    /\ Restowed \subseteq Range(GetAllConfigs(m)) \cup Range(m.Core)
    /\ (~cmdOpts.SkipRestow /\ ~StateListsConfigs) => Restowed = Range(m.Core)
    /\ (~cmdOpts.SkipRestow /\ StateListsConfigs) =>
          Restowed = {c \in Range(GetAllConfigs(m)) : c.name \in stLoaded.Configs}
    /\ AssetsReported \subseteq DepIds(exts)
    /\ (cmdOpts.UpdateExternal /\ lastRun.env.detectOK) => AssetsReported = DepIds(exts)

\* C21: in Update, when the pull is seen to have changed the manifest
\* file, the manifest is loaded again before any group is restowed and
\* any asset is updated; when the load succeeds both steps use the
\* reloaded manifest; when it fails, setup.Update goes on with the
\* manifest loaded at start and the command ends before restowing; when
\* the change is not seen (a HEAD or the diff could not be read) nothing
\* is reloaded.
C21_ReloadAttemptedBeforeRestow ==
    UpdateDone /\ lastRun.env.isRepo /\ lastRun.env.pullOK =>
        CASE lastRun.env.reload = "changed" ->
                /\ UpdateRan
                /\ LoadedBeforeUse(0)
                /\ StepsUse(ReloadedManifest(lastRun.manifest),
                            ReloadedExternal(lastRun.external))
          [] lastRun.env.reload = "fail" /\ lastRun.env.viaCmd ->
                /\ ~UpdateRan /\ exitCode = 1
                /\ LoadedBeforeUse(1)
                /\ RestowCalls = {} /\ ExternalGitCalls = {}
          [] lastRun.env.reload = "fail" /\ ~lastRun.env.viaCmd ->
                /\ UpdateRan
                /\ LoadedBeforeUse(1)
                /\ StepsUse(lastRun.manifest, lastRun.external)
          [] OTHER ->
                /\ UpdateRan
                /\ LoadCalls = {}
                /\ StepsUse(lastRun.manifest, lastRun.external)

\* the pull removed the optional group and the first asset from the
\* manifest; the state lists both groups: after the reload the core
\* group alone was restowed and the second asset alone was updated
C21_Witness ==
    /\ UpdateRan
    /\ lastRun.env.reload = "changed"
    /\ lastRun.manifest.Optional # <<>>
    /\ stLoaded.Configs = {ConfigItem(1).name, ConfigItem(2).name}
    /\ Restowed = {ConfigItem(1)}
    /\ RestowCalls # {}
    /\ cmdOpts.UpdateExternal
    /\ Len(lastRun.external) = 2
    /\ AssetsReported = {2}
    /\ ExternalGitCalls # {}
    /\ LoadedBeforeUse(0)

\* C21 as stated: whenever the manifest file differs between the two
\* HEADs, the manifest is reloaded before any group is restowed and the
\* restow and external-update steps use the reloaded manifest.
C21_ChangedManifestAlwaysReloaded ==
    (UpdateRan /\ ManifestFileChanged) =>
        /\ LoadedBeforeUse(0)
        /\ StepsUse(ReloadedManifest(lastRun.manifest), ReloadedExternal(lastRun.external))

(***************************************************************************)
(* Properties of the git pulls (checked under SpecMaint).                  *)
(***************************************************************************)
PullCalls == {k \in CallsOfTools({"git"}) : calls[k].mode # "clone --depth 1"}

\* C22 as stated: every git pull the tool performs, that of Update on the
\* dotfiles repository and that of an existing external asset, is
\* fast-forward-only; no pull is run in another mode.
C22_EveryPullIsFastForwardOnly ==
    \A k \in PullCalls : calls[k].mode = "pull --ff-only"

(***************************************************************************)
(* Properties of the external subcommands (checked under SpecSingle).      *)
(***************************************************************************)
SingleReturned == pc = "single"
RemoveReturned == pc = "removed"

\* the declared asset a single-asset call was asked for
SingleAsset == {external[k] : k \in {j \in DOMAIN external : external[j].id = lastRun.id}}

UnknownMethod(ext) == ext.method \notin {"", "clone", "copy"}

\* the asset is eligible on the platform and its destination expands
MetAndExpands(ext) ==
    /\ checkCondition(ext.condition, platform)
    /\ expandPath(ext.destination, homeOK).err = NoError

\* something was at the asset's destination when the call began
ExistedBefore(ext) == destBefore[DestOf(ext)] \notin {"absent", "denied"}

FailedWith(ext, msg) ==
    \E k \in DOMAIN extRes.Failed :
        extRes.Failed[k].Dep = ext /\ extRes.Failed[k].Error.msg = msg

InOtherLists(ext) ==
    ext.id \in DepIds(extRes.Cloned) \cup DepIds(extRes.Updated) \cup EntryIds(extRes.Skipped)

DryRunReport ==
    \A k \in DOMAIN external :
       LET ext == external[k]
           status == dest[DestOf(ext)]
       IN  MetAndExpands(ext) =>
              /\ status \in {"absent", "denied"} => ext.id \in DepIds(extRes'.Cloned)
              /\ (status = "git" /\ extOpts'.Update) => ext.id \in DepIds(extRes'.Updated)
              /\ ext.id \notin EntryIds(extRes'.Failed)

\* a step of CloneExternal, CloneSingle or RemoveExternal with DryRun set
\* leaves the filesystem as it was and runs no git
DryRunStep ==
    (extOpts'.DryRun /\ pc' \in {"done", "single", "removed"}) =>
        /\ dest' = dest
        /\ parents' = parents
        /\ clonedBy' = clonedBy
        /\ calls' = <<>>
        /\ (pc' = "done" /\ extErr' = NoError) => DryRunReport

\* C24: with DryRun set, CloneExternal, CloneSingle and RemoveExternal
\* never change the filesystem and never run git clone or git pull: no
\* destination or parent directory is created, updated or removed, and
\* only the intended action is reported.
C24_DryRunTouchesNothing == [][DryRunStep]_vars

\* a dry run of RemoveExternal on an asset whose destination exists
\* returned nil and the destination is still there
C24_Witness ==
    /\ RemoveReturned /\ extOpts.DryRun /\ extErr = NoError
    /\ \E ext \in SingleAsset : dest[DestOf(ext)] \in {"file", "dir", "git"}

(***************************************************************************)
(* Properties of the prompt loop (checked under SpecPromptLoop).           *)
(***************************************************************************)
\* the line the pass being made reads
LineRead == Head(Unread)

EmptyForRequiredNoDefault ==
    /\ TrimSpace(LineRead) = <<>>
    /\ promptIn.field.Required /\ promptIn.field.Default = <<>>

UnrecognisedConfirm ==
    /\ promptIn.field.Type = "confirm"
    /\ TrimSpace(ToLower(LineRead)) \notin YesAnswers \cup NoAnswers

\* a pass of the interactive loop: it asks again only for a line that
\* cannot be taken, and at the end of the input it returns
LoopPass ==
    (pc \in {"idle", "reading"} /\ ~promptIn.skip) =>
        /\ pc' = "reading" =>
              /\ Unread # <<>> /\ LineRead # ReadError
              /\ EmptyForRequiredNoDefault \/ UnrecognisedConfirm
              /\ Len(promptOut'.rest) < Len(Unread)
        /\ (Unread # <<>> /\ LineRead # ReadError /\ promptIn.field.Type # "confirm"
              /\ EmptyForRequiredNoDefault) => pc' = "reading"
        /\ (Unread # <<>> /\ LineRead # ReadError /\ UnrecognisedConfirm) => pc' = "reading"
        /\ Unread = <<>> =>
              /\ pc' = "done"
              /\ IF promptIn.field.Default # <<>>
                 THEN promptOut'.value = promptIn.field.Default /\ promptOut'.err = NoError
                 ELSE IF promptIn.field.Required
                 THEN promptOut'.err # NoError
                 ELSE promptOut'.value = <<>> /\ promptOut'.err = NoError

\* C25: interactive collection of one field terminates on every finite
\* input: it asks again only while the line is empty for a required field
\* without default or is an unrecognised confirm answer, each pass reads
\* a line, and at the end of the input it returns the default if there
\* is one, else an error for a required field and the empty string for an
\* optional one; what it returns is what collectSinglePrompt returns.
C25_PromptLoopTerminates ==
    /\ <>(pc = "done")
    /\ [][LoopPass]_vars
    /\ [](pc = "done" =>
             promptOut = collectSinglePrompt(promptIn.field, promptIn.reader, promptIn.skip))

\* a required field without default met two blank lines and then the end
\* of the input: it asked three times and returned an error
C25_Witness ==
    /\ pc = "done" /\ ~promptIn.skip
    /\ promptIn.field.Required /\ promptIn.field.Default = <<>>
    /\ promptIn.field.Type = "text"
    /\ promptIn.reader = <<<<>>, <<" ">>>>
    /\ promptOut.asked = 3
    /\ promptOut.err # NoError

(***************************************************************************)
(* Properties of the errors of Update and Uninstall (under SpecMaint).     *)
(***************************************************************************)
\* setup.Update was called (not the command's own copy of it)
SetupUpdateReturned == UpdateDone /\ ~lastRun.env.viaCmd

\* C26: if the dotfiles path is not a git working copy or the pull fails,
\* Update returns an error before any group is restowed, any asset is
\* updated or the state is saved; on every other path, restow failures,
\* asset failures and a failed reload of the manifest included, it
\* returns nil.
C26_UpdateFailsOnlyBeforeRestow ==
    SetupUpdateReturned =>
        IF ~lastRun.env.isRepo \/ ~lastRun.env.pullOK
        THEN /\ lastRun.err # NoError
             /\ CallsOfTools({"stow", "state", "config"}) = {}
             /\ ExternalGitCalls = {}
             /\ ~lastRun.env.isRepo => calls = <<>>
             /\ stowOp = "none" /\ dest = destBefore
        ELSE lastRun.err = NoError

\* the reload failed, a group failed to restow, an asset failed to
\* update and the state could not be saved: Update returned nil
C26_Witness ==
    /\ SetupUpdateReturned
    /\ lastRun.env.reload = "fail"
    /\ Len(stowRes.Failed) > 0
    /\ Len(extRes.Failed) > 0
    /\ \E k \in CallsOfTools({"state"}) : calls[k].exit = 1
    /\ lastRun.err = NoError

\* the calls of the kind, as positions in the run
CallsIn(tool, mode) == {k \in CallsOfTools({tool}) : calls[k].mode = mode}

\* every group handed to UnstowConfigs, every asset and every machine
\* config whose removal was asked for, was attempted
EveryRemovalAttempted ==
    /\ {calls[k].pkg : k \in CallsIn("stow", "unstow")} = ConfigPaths(stowInput)
    /\ {calls[k].pkg : k \in CallsIn("deps", "RemoveExternal")} =
          IF cmdOpts.RemoveExternal THEN DepIds(external) ELSE {}
    /\ {calls[k].pkg : k \in CallsIn("machine", "RemoveMachineConfig")} =
          IF cmdOpts.RemoveMachine THEN MachineIds(manifest.MachineConfig) ELSE {}

\* C27: Uninstall deletes the persisted state as its last step, after
\* every unstow and every requested removal has been attempted, and it
\* does so even when a group failed to unstow or a removal failed; it
\* returns an error only when deleting the state fails.
C27_StateDeletedLast ==
    UninstallRan =>
        /\ CallsIn("state", "Delete") = {Len(calls)}
        /\ CallsOfTools({"state"}) = {Len(calls)}
        /\ EveryRemovalAttempted
        /\ lastRun.env.deleteOK => (stfile = NoState /\ lastRun.err = NoError)
        /\ ~lastRun.env.deleteOK => (stfile = stLoaded /\ lastRun.err # NoError)
        /\ lastRun.err # NoError <=> calls[Len(calls)].exit # 0

\* a group failed to unstow, an asset and a machine config could not be
\* removed, and the state was deleted all the same, as the last step
C27_Witness ==
    /\ UninstallRan
    /\ Len(stowRes.Failed) > 0
    /\ \E k \in CallsIn("deps", "RemoveExternal") : calls[k].exit = 1
    /\ \E k \in CallsIn("machine", "RemoveMachineConfig") : calls[k].exit = 1
    /\ stLoaded.exists /\ stfile = NoState
    /\ removed.state
    /\ lastRun.err = NoError

(***************************************************************************)
(* Properties of the Machine Config phase on a machine that has some of    *)
(* the files already (checked under SpecLeftover).                         *)
(***************************************************************************)
\* the calls the step adds to the run
NewCalls == SubSeq(calls', Len(calls) + 1, Len(calls'))

\* the declared configs whose file exists before the step
Existing == {manifest.MachineConfig[k] : k \in
                {j \in DOMAIN manifest.MachineConfig : manifest.MachineConfig[j].ID \in mcfile}}

FieldsOf(mc) == {mc.Prompts[k].ID : k \in DOMAIN mc.Prompts}

\* the Machine Config phase asks and writes for the missing configs only
MachinePhaseStep ==
    pc = "machine" =>
        /\ \A k \in DOMAIN NewCalls : \A mc \in Existing :
              /\ NewCalls[k].tool = "render" => NewCalls[k].pkg # mc.ID
              /\ NewCalls[k].tool = "prompt" => NewCalls[k].pkg \notin FieldsOf(mc)
        /\ \A mc \in Existing :
              RenderResult(mc) \notin
                  Range(SubSeq(result'.MachineConfigs, Len(result.MachineConfigs) + 1,
                               Len(result'.MachineConfigs)))
        /\ mcfile \subseteq mcfile'
        /\ rerun => (NewCalls = <<>> /\ mcfile' = mcfile)

ConditionChecked == pc = "checked" /\ lastRun.kind = "condition"

RecognisedKeys == {"platform", "os", "distro", "package_manager", "wsl", "arch",
                   "architecture"}

\* a recognised key whose value the platform does not match
KeyMismatch(key, value, p) ==
    \/ key \in {"platform", "os"} /\ ~matchesValue(p.OS, value)
    \/ key = "distro" /\ ~matchesValue(p.Distro, value)
    \/ key = "package_manager" /\ ~matchesValue(p.PackageManager, value)
    \/ key = "wsl" /\ value = Str("true") /\ ~p.IsWSL
    \/ key = "wsl" /\ value = Str("false") /\ p.IsWSL
    \/ key \in {"arch", "architecture"} /\ ~matchesValue(p.Architecture, value)

\* a key that can never count against the asset
Harmless(key, value) ==
    \/ key \notin RecognisedKeys
    \/ key = "wsl" /\ value \notin {Str("true"), Str("false")}

\* C29: checkCondition is the conjunction of its recognised keys, whatever
\* the order in which the map yields them: the asset is ineligible exactly
\* when some recognised key (platform/os, distro, package_manager, wsl,
\* arch/architecture) does not match the platform; a key outside that set,
\* or a wsl value other than exactly "true" or "false", never makes the
\* asset ineligible.
C29_ConditionIsConjunctionOfKeys ==
    ConditionChecked =>
        LET c == external[1].condition
        IN  /\ lastRun.eligible <=> ~\E key \in DOMAIN c : KeyMismatch(key, c[key], platform)
            /\ lastRun.eligible = checkCondition(c, platform)
            /\ (\A key \in DOMAIN c : Harmless(key, c[key])) => lastRun.eligible
            /\ lastRun.eligible <=>
                   \A key \in DOMAIN c :
                       Harmless(key, c[key]) \/ ~KeyMismatch(key, c[key], platform)

\* the map yielded a wsl key whose value is "yes" first and an arch key
\* that does not match second, and the asset is ineligible
C29_Witness ==
    /\ ConditionChecked
    /\ Len(lastRun.order) = 2
    /\ lastRun.order[1] = "wsl" /\ external[1].condition["wsl"] = Str("yes")
    /\ lastRun.order[2] = "arch"
    /\ KeyMismatch("arch", external[1].condition["arch"], platform)
    /\ ~lastRun.eligible

====
